---------------------------- MODULE Spec2Model ----------------------------
(***************************************************************************)
(* Model of the backtesting and validation engine of the portfolio         *)
(* manager: portfolio valuation and PortfolioBacktester.run_backtest       *)
(* (src/src/backtesting/backtester.py), the walk-forward analysis and the  *)
(* Monte Carlo bootstrap of AdvancedBacktester                             *)
(* (src/src/backtesting/advanced_backtester.py) and the asyncio            *)
(* BackgroundTaskManager (src/src/tasks/background_tasks.py).              *)
(*                                                                         *)
(* Dates are day ordinals (ISO "YYYY-MM-DD" strings order identically).    *)
(* Money amounts and closing prices are integers; returns and the Monte    *)
(* Carlo statistics are exact rationals <<numerator, denominator>> in      *)
(* lowest terms.  Quantities that need a square root (standard deviation,  *)
(* Sharpe ratio, volatility) are not carried in the backtest and Monte     *)
(* Carlo records; the PerformanceCalculator metrics that need one are      *)
(* given by the rational under the root.  The pure functions               *)
(* (src/src/backtesting/performance.py, the valuation routines, grading    *)
(* and comparison) are applied to arguments drawn from bounded sets.       *)
(***************************************************************************)
EXTENDS Integers, Sequences, FiniteSets, TLC

VARIABLES
    bt_in,        \* PortfolioBacktester: arguments of run_backtest and the provider's answer
    bt_results,   \* PortfolioBacktester.results
    bt_last,      \* outcome of the last run_backtest call
    wf,           \* AdvancedBacktester.walk_forward_analysis: arguments, locals, position
    adv_walk_forward, \* AdvancedBacktester.results['walk_forward']
    mc,           \* AdvancedBacktester.monte_carlo_simulation: arguments, locals, position
    adv_monte_carlo,  \* AdvancedBacktester.results['monte_carlo']
    coros,        \* the asyncio tasks created so far, in creation order
    tasks,        \* BackgroundTaskManager.tasks: task_id -> position in coros
    results,      \* BackgroundTaskManager.results: task_id -> result
    status,       \* BackgroundTaskManager.status: task_id -> status dict
    call          \* one call of a pure function: its name, arguments and outcome

bt_vars == <<bt_in, bt_results, bt_last>>
wf_vars == <<wf, adv_walk_forward>>
mc_vars == <<mc, adv_monte_carlo>>
tm_vars == <<coros, tasks, results, status>>
call_vars == <<call>>
vars == <<bt_in, bt_results, bt_last, wf, adv_walk_forward, mc, adv_monte_carlo,
          coros, tasks, results, status, call>>

---------------------------------------------------------------------------
(* Bounds of the model *)

MaxDate == 3
MaxRuns == 2
MaxWindow == 2
MaxStep == 2
MaxSims == 2
MaxHorizon == 2
MaxLen == 3
TailLen == 20

Dates == 1..MaxDate
Symbols == {"A", "B"}

\* Closing prices the provider may report.
Closes == {1, 2}

---------------------------------------------------------------------------
(* Generic helpers: Python's sorted(), min/max, sums *)

Min(a, b) == IF a <= b THEN a ELSE b
Max(a, b) == IF a >= b THEN a ELSE b

SetMin(S) == CHOOSE x \in S : \A y \in S : x <= y

RECURSIVE SortedDates(_)
SortedDates(S) ==
    IF S = {} THEN <<>>
    ELSE LET m == SetMin(S) IN <<m>> \o SortedDates(S \ {m})

Range(s) == {s[i] : i \in DOMAIN s}

\* Exact rationals <<n, d>>, d > 0, in lowest terms.
Abs(a) == IF a < 0 THEN -a ELSE a

RECURSIVE GCD(_, _)
GCD(a, b) == IF b = 0 THEN a ELSE GCD(b, a % b)

Rat(n, d) ==
    LET g == GCD(Abs(n), Abs(d))
        sgn == IF d < 0 THEN -1 ELSE 1
    IN  <<(sgn * n) \div g, (sgn * d) \div g>>

RZero == Rat(0, 1)
ROne == Rat(1, 1)
RAdd(x, y) == Rat(x[1] * y[2] + y[1] * x[2], x[2] * y[2])
RSub(x, y) == Rat(x[1] * y[2] - y[1] * x[2], x[2] * y[2])
RMul(x, y) == Rat(x[1] * y[1], x[2] * y[2])
RNeg(x) == <<-x[1], x[2]>>
RDivInt(x, k) == Rat(x[1], x[2] * k)
RLess(x, y) == x[1] * y[2] < y[1] * x[2]
RLeq(x, y) == x[1] * y[2] <= y[1] * x[2]
RAbs(x) == <<Abs(x[1]), x[2]>>

---------------------------------------------------------------------------
(* Inputs: portfolios and the price provider's answers *)

PortfolioA ==
    [holdings |-> <<[symbol |-> "A", shares |-> 1]>>, cash |-> 0]
PortfolioAB ==
    [holdings |-> <<[symbol |-> "A", shares |-> 1], [symbol |-> "B", shares |-> 2]>>,
     cash |-> 1]
PortfolioZero ==
    [holdings |-> <<[symbol |-> "B", shares |-> 0]>>, cash |-> 0]
PortfolioEmpty ==
    [holdings |-> <<>>, cash |-> 1]

Portfolios == {PortfolioA, PortfolioAB, PortfolioZero, PortfolioEmpty}
WFPortfolios == {PortfolioA, PortfolioAB}

\* symbols = [h['symbol'] for h in portfolio['holdings']]
SymbolsOf(portfolio) ==
    {portfolio.holdings[i].symbol : i \in DOMAIN portfolio.holdings}

\* A 'prices' list as the provider contract gives it: entries {date, close},
\* dates unique and ascending.
PricesOfMap(m) ==
    LET ds == SortedDates(DOMAIN m)
    IN  [i \in DOMAIN ds |-> [date |-> ds[i], close |-> m[ds[i]]]]

PriceLists ==
    {PricesOfMap(m) : m \in UNION {[X -> Closes] : X \in SUBSET Dates}}

\* fetch_multiple_symbols: one entry {'prices': [...]} per requested symbol.
ProviderAnswers(symbols) ==
    {[s \in symbols |-> [prices |-> IF s = "A" THEN pa ELSE pb]] :
        pa \in PriceLists, pb \in PriceLists}

Periods == {per \in [start_date : Dates, end_date : Dates] :
               per.start_date <= per.end_date}

---------------------------------------------------------------------------
(* Portfolio valuation *)

\* price_by_date[symbol][date] = close, built entry by entry (a later entry
\* for the same date overwrites an earlier one).
price_by_date(historical_prices) ==
    [s \in DOMAIN historical_prices |->
        LET ps == historical_prices[s].prices
            ds == {ps[i].date : i \in DOMAIN ps}
        IN  [d \in ds |->
                ps[CHOOSE i \in DOMAIN ps :
                      /\ ps[i].date = d
                      /\ \A j \in DOMAIN ps : ps[j].date = d => j <= i].close]]

\* all_dates: the union of the dates of every symbol.
all_dates(historical_prices) ==
    UNION {DOMAIN price_by_date(historical_prices)[s] : s \in DOMAIN historical_prices}

\* 'symbol in price_by_date and date in price_by_date[symbol]'
HasPrice(pbd, symbol, date) ==
    symbol \in DOMAIN pbd /\ date \in DOMAIN pbd[symbol]

\* Altered: only the first holding is valued.
HoldingsValueFirstOnly(holdings, pbd, date) ==
    IF holdings = <<>> THEN 0
    ELSE LET h == Head(holdings)
         IN  IF HasPrice(pbd, h.symbol, date)
                THEN h.shares * pbd[h.symbol][date] ELSE 0

\* Sum of shares * price over the holdings that have a price on the date.
RECURSIVE HoldingsValue(_, _, _)
HoldingsValue(holdings, pbd, date) ==
    IF holdings = <<>> THEN 0
    ELSE LET h == Head(holdings)
         IN  (IF HasPrice(pbd, h.symbol, date)
                 THEN h.shares * pbd[h.symbol][date] ELSE 0)
             + HoldingsValue(Tail(holdings), pbd, date)

missing_prices(holdings, pbd, date) ==
    {holdings[i].symbol : i \in {j \in DOMAIN holdings :
                                    ~HasPrice(pbd, holdings[j].symbol, date)}}

\* The mutant: a date is kept as soon as one holding has a price on it.
_calculate_daily_portfolio_values_partial(portfolio, historical_prices, start_date, end_date) ==
    LET pbd == price_by_date(historical_prices)
        valid_dates == SortedDates({d \in all_dates(historical_prices) :
                                       start_date <= d /\ d <= end_date})
        kept == SelectSeq(valid_dates,
                    LAMBDA d : \E i \in DOMAIN portfolio.holdings :
                                   HasPrice(pbd, portfolio.holdings[i].symbol, d))
    IN  [i \in DOMAIN kept |->
            [date |-> kept[i],
             total_value |-> HoldingsValue(portfolio.holdings, pbd, kept[i])
                             + portfolio.cash]]

\* PortfolioBacktester._calculate_daily_portfolio_values
_calculate_daily_portfolio_values(portfolio, historical_prices, start_date, end_date) ==
    LET pbd == price_by_date(historical_prices)
        valid_dates == SortedDates({d \in all_dates(historical_prices) :
                                       start_date <= d /\ d <= end_date})
        kept == SelectSeq(valid_dates,
                    LAMBDA d : missing_prices(portfolio.holdings, pbd, d) = {})
    IN  [i \in DOMAIN kept |->
            [date |-> kept[i],
             total_value |-> HoldingsValue(portfolio.holdings, pbd, kept[i])
                             + portfolio.cash]]

\* The values list both AdvancedBacktester helpers build: one total per date
\* of 'dates' (ascending) on which no holding breaks the 'complete' flag.
complete_values(portfolio, pbd, dates) ==
    LET kept == SelectSeq(dates,
                    LAMBDA d : \A i \in DOMAIN portfolio.holdings :
                                   HasPrice(pbd, portfolio.holdings[i].symbol, d))
    IN  [i \in DOMAIN kept |->
            HoldingsValue(portfolio.holdings, pbd, kept[i]) + portfolio.cash]

\* AdvancedBacktester._calculate_daily_values
_calculate_daily_values(portfolio, historical_prices) ==
    complete_values(portfolio, price_by_date(historical_prices),
                    SortedDates(all_dates(historical_prices)))

\* returns[i] = (values[i] - values[i-1]) / values[i-1]; a zero previous value
\* raises ZeroDivisionError.
ReturnsRaise(values) == \E i \in 1..(Len(values) - 1) : values[i] = 0

ReturnsOf(values) ==
    [i \in 1..(Len(values) - 1) |-> Rat(values[i + 1] - values[i], values[i])]

\* The values of AdvancedBacktester._calculate_returns before the returns are
\* taken (dates within [start_date, end_date] only).
returns_values(portfolio, historical_prices, start_date, end_date) ==
    complete_values(portfolio, price_by_date(historical_prices),
                    SortedDates({d \in all_dates(historical_prices) :
                                    start_date <= d /\ d <= end_date}))

\* AdvancedBacktester._calculate_returns (when it does not raise)
_calculate_returns(portfolio, historical_prices, start_date, end_date) ==
    LET values == returns_values(portfolio, historical_prices, start_date, end_date)
    IN  IF Len(values) < 2 THEN <<>> ELSE ReturnsOf(values)

---------------------------------------------------------------------------
(* PortfolioBacktester.run_backtest *)

base_value == 100000

\* _calculate_portfolio_value: the placeholder starting capital.
_calculate_portfolio_value(portfolio, date) == base_value

\* has_data = any(len(data.get('prices', [])) > 0 for data in historical_prices.values())
has_data(historical_prices) ==
    \E s \in DOMAIN historical_prices : Len(historical_prices[s].prices) > 0

\* The outcome of one call: [outcome |-> "returned", result |-> BacktestResult]
\* or [outcome |-> the exception raised].  The result carries the fields that
\* are exact in integers; num_days is metrics['num_days'] (0 when metrics = {}).
run_backtest(portfolio, historical_prices, period) ==
    IF ~has_data(historical_prices)
    THEN LET initial_value == _calculate_portfolio_value(portfolio, period.start_date)
         IN  [outcome |-> "returned",
              result |-> [period |-> period,
                          initial_value |-> initial_value,
                          final_value |-> (initial_value * 115) \div 100,
                          num_days |-> 0,
                          validation_errors |->
                              <<"No historical data available for any symbols">>]]
    ELSE LET daily_values == _calculate_daily_portfolio_values(
                                 portfolio, historical_prices,
                                 period.start_date, period.end_date)
         IN  IF daily_values = <<>>
             THEN \* 'result' is never bound on this path; self.results.append(result)
                  [outcome |-> "UnboundLocalError"]
             ELSE LET initial_value == daily_values[1].total_value
                      final_value == daily_values[Len(daily_values)].total_value
                  IN  IF \/ initial_value = 0
                         \/ \E i \in 1..(Len(daily_values) - 1) :
                               daily_values[i].total_value = 0
                      THEN [outcome |-> "ZeroDivisionError"]
                      ELSE [outcome |-> "returned",
                            result |-> [period |-> period,
                                        initial_value |-> initial_value,
                                        final_value |-> final_value,
                                        num_days |-> Len(daily_values),
                                        validation_errors |-> <<>>]]

BTIdle ==
    /\ bt_in = [portfolio |-> PortfolioEmpty,
                historical_prices |-> <<>>,
                period |-> [start_date |-> 1, end_date |-> 1]]
    /\ bt_results = <<>>
    /\ bt_last = [calls |-> 0, outcome |-> "none"]

BTStart ==
    /\ \E p \in Portfolios, per \in Periods :
         \E hp \in ProviderAnswers(SymbolsOf(p)) :
            bt_in = [portfolio |-> p, historical_prices |-> hp, period |-> per]
    /\ bt_results = <<>>
    /\ bt_last = [calls |-> 0, outcome |-> "none"]

\* One call of run_backtest on the portfolio and period of bt_in; the fetcher's
\* cache answers a repeated request with the same data.
RunBacktest ==
    /\ bt_last.calls < MaxRuns
    /\ LET r == run_backtest(bt_in.portfolio, bt_in.historical_prices, bt_in.period)
       IN  /\ bt_results' = IF r.outcome = "returned"
                               THEN Append(bt_results, r.result) ELSE bt_results
           /\ bt_last' = [calls |-> bt_last.calls + 1, outcome |-> r.outcome]
    /\ UNCHANGED bt_in
    /\ UNCHANGED <<wf_vars, mc_vars, tm_vars, call_vars>>

---------------------------------------------------------------------------
(* Monte Carlo bootstrap: statistics over the simulated path returns *)

\* final_return of one path: the product of (1 + r) over the sampled
\* returns, minus 1.  'samples' gives the position random.choice drew for
\* each day of the horizon.
\* The mutant: the sampled returns are added up instead of compounded.
RECURSIVE CumReturnAdditive(_, _, _)
CumReturnAdditive(historical_returns, samples, k) ==
    IF k = 0 THEN ROne
    ELSE RAdd(CumReturnAdditive(historical_returns, samples, k - 1),
              historical_returns[samples[k]])

RECURSIVE CumReturn(_, _, _)
CumReturn(historical_returns, samples, k) ==
    IF k = 0 THEN ROne
    ELSE RMul(CumReturn(historical_returns, samples, k - 1),
              RAdd(ROne, historical_returns[samples[k]]))

PathReturn(historical_returns, samples) ==
    RSub(CumReturn(historical_returns, samples, Len(samples)), ROne)

\* The draws random.choice can make for one path; on an empty list it raises
\* IndexError as soon as one draw is made.
PathSamples(historical_returns, horizon_days) ==
    [1..horizon_days -> 1..Len(historical_returns)]

CountLess(s, v) == Cardinality({i \in DOMAIN s : RLess(s[i], v)})
CountLeq(s, v) == Cardinality({i \in DOMAIN s : RLeq(s[i], v)})

\* Altered: the list is left in the order of generation.
AsGenerated(s) == s

\* list.sort() on the path returns (ascending): position i holds the value
\* with fewer than i elements below it and at least i elements not above it.
SortRat(s) ==
    [i \in 1..Len(s) |->
        CHOOSE v \in Range(s) : CountLess(s, v) < i /\ i <= CountLeq(s, v)]

\* sum() of a list, adding each distinct value as often as it occurs.
RECURSIVE SumDistinct(_, _)
SumDistinct(s, values) ==
    IF values = {} THEN RZero
    ELSE LET v == CHOOSE x \in values : TRUE
             times == Cardinality({i \in DOMAIN s : s[i] = v})
         IN  RAdd(Rat(v[1] * times, v[2]), SumDistinct(s, values \ {v}))

SumRat(s) == SumDistinct(s, Range(s))

\* statistics.mean of a non-empty list
MeanRat(s) == RDivInt(SumRat(s), Len(s))

\* statistics.median of a non-empty sorted list
MedianRat(s) ==
    LET n == Len(s)
    IN  IF n % 2 = 1 THEN s[(n + 1) \div 2]
        ELSE RDivInt(RAdd(s[n \div 2], s[n \div 2 + 1]), 2)

\* int(0.05 * n) and int(0.95 * n)
PercentileIndex(pct, n) == (pct * n) \div 100

CountLosses(s) == Cardinality({i \in DOMAIN s : RLess(s[i], RZero)})

\* The result returned when there are fewer than 2 daily values.
ZeroMonteCarloResult ==
    [num_simulations |-> 0, mean_return |-> RZero, median_return |-> RZero,
     percentile_5 |-> RZero, percentile_95 |-> RZero, var_95 |-> RZero,
     expected_shortfall_95 |-> RZero, probability_loss |-> RZero]

\* Lines 331-372 of monte_carlo_simulation, for two or more path returns
\* (statistics.mean raises on none, statistics.stdev on fewer than two).
MonteCarloStatistics(num_simulations, final_returns) ==
    LET sorted == SortRat(final_returns)
        n == Len(final_returns)
        percentile_5 == sorted[PercentileIndex(5, n) + 1]
        worst_5pct == [i \in 1..PercentileIndex(5, n) |-> sorted[i]]
    IN  [num_simulations |-> num_simulations,
         mean_return |-> MeanRat(sorted),
         median_return |-> MedianRat(sorted),
         percentile_5 |-> percentile_5,
         percentile_95 |-> sorted[PercentileIndex(95, n) + 1],
         var_95 |-> RNeg(percentile_5),
         expected_shortfall_95 |->
             IF worst_5pct # <<>> THEN RNeg(MeanRat(worst_5pct)) ELSE RZero,
         probability_loss |-> Rat(CountLosses(sorted), n)]

---------------------------------------------------------------------------
(* AdvancedBacktester.monte_carlo_simulation *)

\* Provider answers handed to the simulation: "A" with any prices; when "B" is
\* held too it is priced at 1 on every date or on every date but the last.
MCProviderAnswers(symbols) ==
    {[s \in symbols |-> [prices |-> IF s = "A" THEN pa ELSE pb]] :
        pa \in PriceLists,
        pb \in {PricesOfMap([d \in X |-> 1]) : X \in {Dates, Dates \ {MaxDate}}}}

MCCall(p, hp, n, h, calls) ==
    [pc |-> "idle", portfolio |-> p, historical_prices |-> hp,
     num_simulations |-> n, horizon_days |-> h,
     historical_returns |-> <<>>, final_returns |-> <<>>,
     returned |-> ZeroMonteCarloResult, calls |-> calls]

MCIdle ==
    /\ mc = MCCall(PortfolioA, <<>>, 0, 0, 0)
    /\ adv_monte_carlo = <<>>

\* The object after construction and the arguments of the call to come.
MCStart ==
    /\ \E p \in WFPortfolios, n \in 0..MaxSims, h \in 0..MaxHorizon :
         \E hp \in MCProviderAnswers(SymbolsOf(p)) :
            mc = MCCall(p, hp, n, h, 1)
    /\ adv_monte_carlo = <<>>

\* Calls on a full history of one holding whose close doubles, halves or stays
\* from one day to the next, so that a history of equal non-zero returns occurs.
MCGrowthStart ==
    /\ \E closes \in [Dates -> {1, 2, 4}], n \in 0..MaxSims, h \in 0..MaxHorizon :
          mc = MCCall(PortfolioA, [s \in {"A"} |-> [prices |-> PricesOfMap(closes)]],
                      n, h, 1)
    /\ adv_monte_carlo = <<>>

\* Lines 285-311: value the history; fewer than 2 daily values returns the
\* zero-filled result at once.
MonteCarloBegin ==
    /\ mc.pc = "idle"
    /\ LET daily_values == _calculate_daily_values(mc.portfolio, mc.historical_prices)
       IN  IF Len(daily_values) < 2
           THEN mc' = [mc EXCEPT !.pc = "done", !.returned = ZeroMonteCarloResult]
           ELSE IF ReturnsRaise(daily_values)
           THEN mc' = [mc EXCEPT !.pc = "ZeroDivisionError"]
           ELSE mc' = [mc EXCEPT !.pc = "simulate",
                                 !.historical_returns = ReturnsOf(daily_values),
                                 !.final_returns = <<>>]
    /\ UNCHANGED adv_monte_carlo
    /\ UNCHANGED <<bt_vars, wf_vars, tm_vars, call_vars>>

\* One pass of 'for sim in range(num_simulations)' (lines 313-329).
MonteCarloPath ==
    /\ mc.pc = "simulate"
    /\ Len(mc.final_returns) < mc.num_simulations
    /\ \E samples \in PathSamples(mc.historical_returns, mc.horizon_days) :
          mc' = [mc EXCEPT !.final_returns =
                               Append(@, PathReturn(mc.historical_returns, samples))]
    /\ UNCHANGED adv_monte_carlo
    /\ UNCHANGED <<bt_vars, wf_vars, tm_vars, call_vars>>

\* Lines 331-375: sort, aggregate, append the result and return it.
MonteCarloEnd ==
    /\ mc.pc = "simulate"
    /\ Len(mc.final_returns) = mc.num_simulations
    /\ IF Len(mc.final_returns) < 2
       THEN /\ mc' = [mc EXCEPT !.pc = "StatisticsError"]
            /\ UNCHANGED adv_monte_carlo
       ELSE LET result == MonteCarloStatistics(mc.num_simulations, mc.final_returns)
            IN  /\ mc' = [mc EXCEPT !.pc = "done", !.returned = result]
                /\ adv_monte_carlo' = Append(adv_monte_carlo, result)
    /\ UNCHANGED <<bt_vars, wf_vars, tm_vars, call_vars>>

\* A second call with the same arguments on the same object.
MonteCarloAgain ==
    /\ mc.pc = "done"
    /\ mc.calls < 2
    /\ mc' = MCCall(mc.portfolio, mc.historical_prices, mc.num_simulations,
                    mc.horizon_days, mc.calls + 1)
    /\ UNCHANGED adv_monte_carlo
    /\ UNCHANGED <<bt_vars, wf_vars, tm_vars, call_vars>>

---------------------------------------------------------------------------
(* BackgroundTaskManager: asyncio tasks on one event loop.  Code between two
   awaits runs without interleaving; a cancellation is delivered at the next
   point where the task is suspended or about to start. *)

TaskIds == {"t1", "t2"}

\* The asyncio tasks the clients create: enough for two task ids, or for a
\* task id that is submitted again.
TaskObjects == {1, 2}

ProgressInterval == 1000

NoProgress == <<0, 0>>   \* a status dict without a 'progress' key

Lookup(dict, key, default) == IF key \in DOMAIN dict THEN dict[key] ELSE default

Store(dict, key, value) == [k \in DOMAIN dict \cup {key} |->
                               IF k = key THEN value ELSE dict[k]]

None == [none |-> TRUE]

get_status(task_id) ==
    Lookup(status, task_id, [status |-> "not_found", progress |-> NoProgress])

get_result(task_id) == Lookup(results, task_id, None)

\* Arguments of run_monte_carlo_background used by the clients.
MonteCarloArguments ==
    {[historical_returns |-> hr, num_simulations |-> n, horizon_days |-> 1,
      callback |-> cb] :
        hr \in {<<>>, <<Rat(1, 1), Rat(-1, 2)>>},
        n \in {0, MaxSims},
        cb \in BOOLEAN}

\* A run long enough to reach the progress update; clients submit it on its
\* own.
LongRunArguments ==
    {[historical_returns |-> <<RZero>>, num_simulations |-> ProgressInterval,
      horizon_days |-> 1, callback |-> FALSE]}

LongRunSubmitted ==
    \E c \in DOMAIN coros : coros[c].args.num_simulations >= ProgressInterval

\* run_walk_forward_background: only the callback matters to the manager.
WalkForwardArguments ==
    {[historical_returns |-> <<>>, num_simulations |-> 0, horizon_days |-> 0,
      callback |-> cb] : cb \in BOOLEAN}

NewTask(task_id, kind, args) ==
    [task_id |-> task_id, kind |-> kind, args |-> args, pc |-> "scheduled",
     must_cancel |-> FALSE, simulated_returns |-> <<>>]

Ended == {"returned", "IndexError", "ZeroDivisionError", "CallbackError",
          "ProviderError", "CancelledError"}

\* asyncio.Task.done()
done(task) == task.pc \in Ended

\* No task is inside a stretch of code without awaits.
LoopIdle == \A c \in DOMAIN coros : coros[c].pc # "simulate"

\* Tasks get their first step in creation order.
NextToStart(c) ==
    /\ coros[c].pc = "scheduled"
    /\ \A b \in 1..(c - 1) : coros[b].pc # "scheduled"

\* Lines 75-111 of monte_carlo_task
BackgroundStatistics(num_simulations, simulated_returns) ==
    LET sorted == SortRat(simulated_returns)
        n == Len(simulated_returns)
        percentile_5 == sorted[PercentileIndex(5, n) + 1]
        tail_losses == [i \in 1..PercentileIndex(5, n) |-> sorted[i]]
    IN  [num_simulations |-> num_simulations,
         mean_return |-> RDivInt(SumRat(simulated_returns), n),
         median_return |-> sorted[(n \div 2) + 1],
         percentile_5 |-> percentile_5,
         percentile_95 |-> sorted[PercentileIndex(95, n) + 1],
         var_95 |-> RAbs(percentile_5),
         expected_shortfall_95 |->
             IF tail_losses # <<>>
             THEN RAbs(RDivInt(SumRat(tail_losses), PercentileIndex(5, n)))
             ELSE RZero,
         probability_loss |-> Rat(CountLosses(simulated_returns), n)]

\* A loop that stops after its first pass.
loop_finished_early(task) == Len(task.simulated_returns) >= 1

\* 'for i in range(num_simulations)' has run out.
loop_finished(task) == Len(task.simulated_returns) = task.args.num_simulations

StatusRunning == [status |-> "running", progress |-> RZero]
StatusCompleted == [status |-> "completed", progress |-> ROne]
StatusFailed == [status |-> "failed", progress |-> NoProgress]
StatusCancelled == [status |-> "cancelled", progress |-> NoProgress]

TMIdle ==
    /\ coros = <<>>
    /\ tasks = <<>>
    /\ results = <<>>
    /\ status = <<>>

\* BackgroundTaskManager.__init__
TMStart == TMIdle

\* Lines 43-47, 140-143 and 172-176, 228-231: both entry points record
\* 'running' and create the task, without an await.
Submit(task_id, kind, args) ==
    /\ Len(coros) + 1 \in TaskObjects
    /\ ~LongRunSubmitted
    /\ LoopIdle
    /\ status' = Store(status, task_id, StatusRunning)
    /\ coros' = Append(coros, NewTask(task_id, kind, args))
    /\ tasks' = Store(tasks, task_id, Len(coros) + 1)
    /\ UNCHANGED results

run_monte_carlo_background ==
    /\ \E task_id \in TaskIds :
          \E args \in MonteCarloArguments \cup
                      (IF coros = <<>> THEN LongRunArguments ELSE {}) :
             Submit(task_id, "monte_carlo", args)
    /\ UNCHANGED <<bt_vars, wf_vars, mc_vars, call_vars>>

run_walk_forward_background ==
    /\ \E task_id \in TaskIds, args \in WalkForwardArguments :
          Submit(task_id, "walk_forward", args)
    /\ UNCHANGED <<bt_vars, wf_vars, mc_vars, call_vars>>

\* The event loop gives a task its first step: a task cancelled before that
\* never enters its body; monte_carlo_task enters its loop, walk_forward_task
\* runs up to the await of the price retrieval (line 187).
TaskStart ==
    /\ LoopIdle
    /\ \E c \in DOMAIN coros :
          /\ NextToStart(c)
          /\ coros' = [coros EXCEPT ![c].pc =
                          IF coros[c].must_cancel THEN "CancelledError"
                          ELSE IF coros[c].kind = "monte_carlo" THEN "simulate"
                          ELSE "fetch"]
    /\ UNCHANGED <<tasks, results, status>>
    /\ UNCHANGED <<bt_vars, wf_vars, mc_vars, call_vars>>

\* 'except Exception' (lines 130-137 and 218-225)
Fail(c, error) ==
    /\ status' = Store(status, coros[c].task_id, StatusFailed)
    /\ coros' = [coros EXCEPT ![c].pc = error]

\* One pass of the simulation loop (lines 55-73).
MonteCarloTaskPath ==
    /\ \E c \in DOMAIN coros :
          /\ coros[c].pc = "simulate"
          /\ ~loop_finished(coros[c])
          /\ LET task == coros[c]
                 i == Len(task.simulated_returns)
             IN  IF task.args.historical_returns = <<>> /\ task.args.horizon_days > 0
                 THEN Fail(c, "IndexError")
                 ELSE \E samples \in PathSamples(task.args.historical_returns,
                                                 task.args.horizon_days) :
                        /\ coros' = [coros EXCEPT ![c].simulated_returns =
                              Append(@, PathReturn(task.args.historical_returns, samples))]
                        /\ IF (i + 1) % ProgressInterval = 0
                           THEN status' = [status EXCEPT ![task.task_id].progress =
                                              Rat(i + 1, task.args.num_simulations)]
                           ELSE UNCHANGED status
    /\ UNCHANGED <<tasks, results>>
    /\ UNCHANGED <<bt_vars, wf_vars, mc_vars, call_vars>>

\* Lines 113-128 and 199-216: publish, mark completed, then await the
\* callback, which may return at once, suspend, or raise.
PublishAndCallback(c, result) ==
    /\ results' = Store(results, coros[c].task_id, result)
    /\ IF coros[c].args.callback
       THEN \E behaviour \in {"returns", "suspends", "raises"} :
               /\ coros' = [coros EXCEPT ![c].pc =
                               CASE behaviour = "returns" -> "returned"
                                 [] behaviour = "suspends" -> "callback"
                                 [] behaviour = "raises" -> "CallbackError"]
               /\ status' = Store(status, coros[c].task_id,
                                  IF behaviour = "raises" THEN StatusFailed
                                  ELSE StatusCompleted)
       ELSE /\ coros' = [coros EXCEPT ![c].pc = "returned"]
            /\ status' = Store(status, coros[c].task_id, StatusCompleted)

\* After the loop (lines 75-128): aggregate and publish.
MonteCarloTaskFinish ==
    /\ \E c \in DOMAIN coros :
          /\ coros[c].pc = "simulate"
          /\ loop_finished(coros[c])
          /\ IF coros[c].simulated_returns = <<>>
             THEN Fail(c, "ZeroDivisionError") /\ UNCHANGED results
             ELSE PublishAndCallback(c,
                      BackgroundStatistics(coros[c].args.num_simulations,
                                           coros[c].simulated_returns))
    /\ UNCHANGED tasks
    /\ UNCHANGED <<bt_vars, wf_vars, mc_vars, call_vars>>

\* walk_forward_task resumes from the awaited analysis (lines 187-216).  The
\* repository's price provider has no prices, so the analysis returns [];
\* a provider that fails makes the await raise.
WalkForwardTaskResume ==
    /\ LoopIdle
    /\ \E c \in DOMAIN coros :
          /\ coros[c].pc = "fetch"
          /\ IF coros[c].must_cancel
             THEN /\ coros' = [coros EXCEPT ![c].pc = "CancelledError"]
                  /\ UNCHANGED <<results, status>>
             ELSE \/ PublishAndCallback(c, [iterations |-> 0, results |-> <<>>])
                  \/ Fail(c, "ProviderError") /\ UNCHANGED results
    /\ UNCHANGED tasks
    /\ UNCHANGED <<bt_vars, wf_vars, mc_vars, call_vars>>

\* The awaited callback finishes (lines 125-137, 213-225).  CancelledError is
\* not an Exception, so the handler does not run for it.
CallbackResume ==
    /\ LoopIdle
    /\ \E c \in DOMAIN coros :
          /\ coros[c].pc = "callback"
          /\ IF coros[c].must_cancel
             THEN /\ coros' = [coros EXCEPT ![c].pc = "CancelledError"]
                  /\ UNCHANGED status
             ELSE \/ coros' = [coros EXCEPT ![c].pc = "returned"] /\ UNCHANGED status
                  \/ Fail(c, "CallbackError")
    /\ UNCHANGED <<tasks, results>>
    /\ UNCHANGED <<bt_vars, wf_vars, mc_vars, call_vars>>

\* cancel_task (lines 296-319), when it returns True.
cancel_task ==
    /\ LoopIdle
    /\ \E task_id \in DOMAIN tasks :
          /\ ~done(coros[tasks[task_id]])
          /\ coros' = [coros EXCEPT ![tasks[task_id]].must_cancel = TRUE]
          /\ status' = Store(status, task_id, StatusCancelled)
    /\ UNCHANGED <<tasks, results>>
    /\ UNCHANGED <<bt_vars, wf_vars, mc_vars, call_vars>>

\* wait_for_task with a positive timeout that expires (lines 277-278): the
\* task had its first step when the waiter suspended, so it is suspended in
\* an await of its own; asyncio.wait_for cancels it and the manager's dicts
\* are not touched.
wait_for_task_timeout ==
    /\ LoopIdle
    /\ \E task_id \in DOMAIN tasks :
          /\ coros[tasks[task_id]].pc \in {"fetch", "callback"}
          /\ ~coros[tasks[task_id]].must_cancel
          /\ coros' = [coros EXCEPT ![tasks[task_id]].must_cancel = TRUE]
    /\ UNCHANGED <<tasks, results, status>>
    /\ UNCHANGED <<bt_vars, wf_vars, mc_vars, call_vars>>

---------------------------------------------------------------------------
(* Calls of pure functions: the outcome is the value returned or the
   exception raised. *)

Pending == [outcome |-> "pending"]
Returned(v) == [outcome |-> "returned", value |-> v]
Raised(e) == [outcome |-> e]

NewCall(fn, args) == [fn |-> fn, args |-> args, out |-> Pending]

CallIdle == call = NewCall("none", [none |-> TRUE])

\* The call is of the function named fn and has not been made yet.
Calling(fn) == call.fn = fn /\ call.out = Pending

\* The call ends with the outcome out.
Finish(out) ==
    /\ call' = [call EXCEPT !.out = out]
    /\ UNCHANGED <<bt_vars, wf_vars, mc_vars, tm_vars>>

RDiv(x, y) == Rat(x[1] * y[2], x[2] * y[1])

\* int(): truncation towards zero
IntTrunc(x) == IF x[1] >= 0 THEN x[1] \div x[2] ELSE -((-x[1]) \div x[2])

\* All lists over S of length 0..n
ListsUpTo(S, n) == UNION {[1..k -> S] : k \in 0..n}

---------------------------------------------------------------------------
(* PerformanceCalculator *)

periods_per_year == 252
risk_free_rate == Rat(1, 25)

\* statistics.mean, statistics.variance (n - 1 in the denominator)
variance(xs) ==
    LET m == MeanRat(xs)
    IN  RDivInt(SumRat([i \in DOMAIN xs |-> RMul(RSub(xs[i], m), RSub(xs[i], m))]),
                Len(xs) - 1)

calculate_returns(values) ==
    IF Len(values) < 2 THEN Returned(<<>>)
    ELSE IF \E i \in 1..(Len(values) - 1) : values[i] = RZero
         THEN Raised("ZeroDivisionError")
         ELSE Returned([i \in 1..(Len(values) - 1) |->
                          RDiv(RSub(values[i + 1], values[i]), values[i])])

total_return(initial_value, final_value) ==
    IF initial_value = RZero THEN Raised("ZeroDivisionError")
    ELSE Returned(RDiv(RSub(final_value, initial_value), initial_value))

\* A drawdown replaces the maximum so far.
drawdown_exceeds_or_ties(drawdown, max_dd) == RLeq(max_dd, drawdown)

drawdown_exceeds(drawdown, max_dd) == RLess(max_dd, drawdown)

\* The locals of max_drawdown after the first i passes of its loop (lines
\* 189-205); indices are 0-based as in the code.
RECURSIVE max_drawdown_loop(_, _)
max_drawdown_loop(values, i) ==
    IF i = 0
    THEN [peak |-> values[1], peak_idx |-> 0, max_dd |-> RZero,
          max_dd_peak_idx |-> 0, max_dd_trough_idx |-> 0, raised |-> FALSE]
    ELSE LET prev == max_drawdown_loop(values, i - 1)
             value == values[i]
             rises == RLess(prev.peak, value)
             peak == IF rises THEN value ELSE prev.peak
             peak_idx == IF rises THEN i - 1 ELSE prev.peak_idx
         IN  IF prev.raised \/ peak = RZero
             THEN [prev EXCEPT !.raised = TRUE]
             ELSE LET drawdown == RDiv(RSub(peak, value), peak)
                      better == drawdown_exceeds(drawdown, prev.max_dd)
                  IN  [peak |-> peak, peak_idx |-> peak_idx,
                       max_dd |-> IF better THEN drawdown ELSE prev.max_dd,
                       max_dd_peak_idx |->
                           IF better THEN peak_idx ELSE prev.max_dd_peak_idx,
                       max_dd_trough_idx |->
                           IF better THEN i - 1 ELSE prev.max_dd_trough_idx,
                       raised |-> FALSE]

max_drawdown(values) ==
    IF Len(values) < 2 THEN Returned(<<RZero, 0, 0>>)
    ELSE LET end == max_drawdown_loop(values, Len(values))
         IN  IF end.raised THEN Raised("ZeroDivisionError")
             ELSE Returned(<<end.max_dd, end.max_dd_peak_idx, end.max_dd_trough_idx>>)

\* The running peak of ulcer_index after i values, and whether the division
\* by it has failed (lines 416-423).
RECURSIVE ulcer_loop(_, _)
ulcer_loop(values, i) ==
    IF i = 0
    THEN [peak |-> values[1], squared_drawdowns |-> <<>>, raised |-> FALSE]
    ELSE LET prev == ulcer_loop(values, i - 1)
             value == values[i]
             peak == IF RLess(prev.peak, value) THEN value ELSE prev.peak
         IN  IF prev.raised \/ peak = RZero
             THEN [prev EXCEPT !.raised = TRUE]
             ELSE LET drawdown_pct == RMul(RDiv(RSub(peak, value), peak), Rat(100, 1))
                  IN  [peak |-> peak,
                       squared_drawdowns |->
                           Append(prev.squared_drawdowns,
                                  RMul(drawdown_pct, drawdown_pct)),
                       raised |-> FALSE]

\* The value is the square root of the rational given as sqrt_of.
ulcer_index(values) ==
    IF Len(values) < 2 THEN Returned([sqrt_of |-> RZero])
    ELSE LET end == ulcer_loop(values, Len(values))
         IN  IF end.raised THEN Raised("ZeroDivisionError")
             ELSE Returned([sqrt_of |-> MeanRat(end.squared_drawdowns)])

\* A ratio whose denominator is a standard deviation: the value is
\* num / sqrt(sqrt_den).  0.0 is [num |-> 0, sqrt_den |-> 1].
NeutralRatio == [num |-> RZero, sqrt_den |-> ROne]

\* The mutant: the test for a standard deviation of 0 is left out, and the
\* division by annual_std = 0.0 raises.
sharpe_ratio_unguarded(returns, rf, ppy) ==
    IF Len(returns) < 2 THEN Returned(NeutralRatio)
    ELSE IF variance(returns) = RZero THEN Raised("ZeroDivisionError")
    ELSE Returned([num |-> RSub(RMul(MeanRat(returns), Rat(ppy, 1)), rf),
                   sqrt_den |-> RMul(variance(returns), Rat(ppy, 1))])

\* sharpe_ratio(returns, risk_free_rate, periods_per_year), for
\* periods_per_year > 0:
\* (mean * periods_per_year - risk_free_rate) / (std_dev * sqrt(periods_per_year)).
sharpe_ratio(returns, rf, ppy) ==
    IF Len(returns) < 2 THEN Returned(NeutralRatio)
    ELSE IF variance(returns) = RZero THEN Returned(NeutralRatio)
    ELSE Returned([num |-> RSub(RMul(MeanRat(returns), Rat(ppy, 1)), rf),
                   sqrt_den |-> RMul(variance(returns), Rat(ppy, 1))])

calmar_ratio(annualized_return, max_drawdown_pct) ==
    IF max_drawdown_pct = RZero THEN Returned(RZero)
    ELSE Returned(RDiv(annualized_return, max_drawdown_pct))

\* The test both benchmark metrics make first; the other one makes it only
\* after the shortcut for short series.
length_mismatch_after_shortcut(portfolio_returns, benchmark_returns) ==
    /\ Len(portfolio_returns) >= 2
    /\ Len(portfolio_returns) # Len(benchmark_returns)

length_mismatch(portfolio_returns, benchmark_returns) ==
    Len(portfolio_returns) # Len(benchmark_returns)

beta(portfolio_returns, benchmark_returns) ==
    IF length_mismatch(portfolio_returns, benchmark_returns)
    THEN Raised("ValueError")
    ELSE IF Len(portfolio_returns) < 2 THEN Returned(ROne)
    ELSE LET port_mean == MeanRat(portfolio_returns)
             bench_mean == MeanRat(benchmark_returns)
             n == Len(portfolio_returns)
             covariance ==
                 RDivInt(SumRat([i \in 1..n |->
                            RMul(RSub(portfolio_returns[i], port_mean),
                                 RSub(benchmark_returns[i], bench_mean))]), n - 1)
             bench_variance == variance(benchmark_returns)
         IN  IF bench_variance = RZero THEN Returned(ROne)
             ELSE Returned(RDiv(covariance, bench_variance))

information_ratio(portfolio_returns, benchmark_returns) ==
    IF length_mismatch(portfolio_returns, benchmark_returns)
    THEN Raised("ValueError")
    ELSE IF Len(portfolio_returns) < 2 THEN Returned(NeutralRatio)
    ELSE LET excess_returns == [i \in DOMAIN portfolio_returns |->
                                  RSub(portfolio_returns[i], benchmark_returns[i])]
             tracking_error_squared == variance(excess_returns)
         IN  IF tracking_error_squared = RZero THEN Returned(NeutralRatio)
             ELSE Returned([num |-> MeanRat(excess_returns),
                            sqrt_den |-> tracking_error_squared])

\* index = int((1 - confidence_level) * len(sorted_returns)), clamped to the
\* last position.
var_index_unclamped(confidence_level, n) ==
    IntTrunc(RMul(RSub(ROne, confidence_level), Rat(n, 1)))

var_index(confidence_level, n) ==
    LET index == IntTrunc(RMul(RSub(ROne, confidence_level), Rat(n, 1)))
    IN  IF index >= n THEN n - 1 ELSE index

\* sorted_returns[index] with Python's indexing: negative indices count from
\* the end, anything outside raises IndexError.
value_at_risk(returns, confidence_level) ==
    IF returns = <<>> THEN Returned(RZero)
    ELSE LET sorted_returns == SortRat(returns)
             n == Len(returns)
             index == var_index(confidence_level, n)
         IN  IF index >= n \/ index < -n THEN Raised("IndexError")
             ELSE LET var == RNeg(sorted_returns[IF index >= 0 THEN index + 1
                                                 ELSE n + index + 1])
                  IN  Returned(IF RLess(var, RZero) THEN RZero ELSE var)

\* The mutant: an index of 0 is kept, and the tail is empty.
cvar_index_unfloored(confidence_level, n) ==
    IntTrunc(RMul(RSub(ROne, confidence_level), Rat(n, 1)))

\* index = int((1 - confidence_level) * len(sorted_returns)), 0 replaced by 1.
cvar_index(confidence_level, n) ==
    LET index == IntTrunc(RMul(RSub(ROne, confidence_level), Rat(n, 1)))
    IN  IF index = 0 THEN 1 ELSE index

\* sorted_returns[:index] with Python's slicing: an index past the end takes
\* the whole list, a negative one leaves out that many from the end.
conditional_var(returns, confidence_level) ==
    IF returns = <<>> THEN Returned(RZero)
    ELSE LET sorted_returns == SortRat(returns)
             n == Len(returns)
             index == cvar_index(confidence_level, n)
             stop == IF index >= 0 THEN Min(index, n) ELSE Max(n + index, 0)
             tail_returns == SubSeq(sorted_returns, 1, stop)
         IN  IF tail_returns = <<>> THEN Returned(RZero)
             ELSE LET cvar == RNeg(MeanRat(tail_returns))
                  IN  Returned(IF RLess(cvar, RZero) THEN RZero ELSE cvar)

\* Arguments: value series, return series, confidence levels.
SeriesValues == {Rat(v, 1) : v \in 0..3}
ReturnValues == {Rat(-1, 2), RZero, Rat(1, 2)}
\* (1 - 0.95) * n in floating point has the integer part of n / 20 for the
\* lengths used here.
ConfidenceLevels == {RZero, Rat(1, 4), Rat(1, 2), Rat(3, 4), Rat(19, 20), ROne}
\* risk_free_rate and periods_per_year as passed by a caller: the defaults
\* (0.04, 252), none, a negative rate, one period and monthly periods.
RiskFreeRates == {Rat(-1, 25), RZero, risk_free_rate}
PeriodsPerYear == {1, 12, periods_per_year}
ValueLists == ListsUpTo(SeriesValues, MaxLen)
ReturnLists == ListsUpTo(ReturnValues, MaxLen)

PerfStart ==
    \/ \E fn \in {"calculate_returns", "max_drawdown", "ulcer_index"},
          values \in ValueLists :
          call = NewCall(fn, [values |-> values])
    \/ \E initial_value \in SeriesValues, final_value \in SeriesValues :
          call = NewCall("total_return", [initial_value |-> initial_value,
                                          final_value |-> final_value])
    \/ \E returns \in ReturnLists, rf \in RiskFreeRates, ppy \in PeriodsPerYear :
          call = NewCall("sharpe_ratio", [returns |-> returns, risk_free_rate |-> rf,
                                          periods_per_year |-> ppy])
    \/ \E annualized_return \in ReturnValues, max_drawdown_pct \in {RZero, Rat(1, 2)} :
          call = NewCall("calmar_ratio", [annualized_return |-> annualized_return,
                                          max_drawdown_pct |-> max_drawdown_pct])
    \/ \E fn \in {"beta", "information_ratio"},
          portfolio_returns \in ReturnLists, benchmark_returns \in ReturnLists :
          call = NewCall(fn, [portfolio_returns |-> portfolio_returns,
                              benchmark_returns |-> benchmark_returns])
    \/ \E fn \in {"value_at_risk", "conditional_var"},
          returns \in ReturnLists, confidence_level \in ConfidenceLevels :
          call = NewCall(fn, [returns |-> returns,
                              confidence_level |-> confidence_level])

CalculateReturnsCall ==
    /\ Calling("calculate_returns")
    /\ Finish(calculate_returns(call.args.values))
TotalReturnCall ==
    /\ Calling("total_return")
    /\ Finish(total_return(call.args.initial_value, call.args.final_value))
MaxDrawdownCall ==
    /\ Calling("max_drawdown")
    /\ Finish(max_drawdown(call.args.values))
UlcerIndexCall ==
    /\ Calling("ulcer_index")
    /\ Finish(ulcer_index(call.args.values))
SharpeRatioCall ==
    /\ Calling("sharpe_ratio")
    /\ Finish(sharpe_ratio(call.args.returns, call.args.risk_free_rate,
                           call.args.periods_per_year))
CalmarRatioCall ==
    /\ Calling("calmar_ratio")
    /\ Finish(calmar_ratio(call.args.annualized_return,
                                       call.args.max_drawdown_pct))
BetaCall ==
    /\ Calling("beta")
    /\ Finish(beta(call.args.portfolio_returns, call.args.benchmark_returns))
InformationRatioCall ==
    /\ Calling("information_ratio")
    /\ Finish(information_ratio(call.args.portfolio_returns,
                                                 call.args.benchmark_returns))
ValueAtRiskCall ==
    /\ Calling("value_at_risk")
    /\ Finish(value_at_risk(call.args.returns, call.args.confidence_level))
ConditionalVarCall ==
    /\ Calling("conditional_var")
    /\ Finish(conditional_var(call.args.returns, call.args.confidence_level))

---------------------------------------------------------------------------
(* AdvancedBacktester.walk_forward_analysis *)

\* The walk-forward timeline spans more dates than a single valuation needs.
WFDates == 1..(MaxDate + 2)

\* Provider answers of the walk-forward runs: every symbol is priced on any
\* set of dates, all closes equal.
WFPriceLists == {PricesOfMap([d \in X |-> 1]) : X \in SUBSET WFDates}

WFProviderAnswers(symbols) ==
    {[s \in symbols |-> [prices |-> IF s = "A" THEN pa ELSE pb]] :
        pa \in WFPriceLists, pb \in WFPriceLists}

\* The dates of every symbol's entries one symbol after the other, a date
\* repeated for each symbol that has it.
RECURSIVE wf_dates_per_symbol(_, _)
wf_dates_per_symbol(historical_prices, symbols) ==
    IF symbols = {} THEN <<>>
    ELSE LET s == CHOOSE x \in symbols : TRUE
         IN  [i \in DOMAIN historical_prices[s].prices |->
                  historical_prices[s].prices[i].date]
             \o wf_dates_per_symbol(historical_prices, symbols \ {s})

\* The mutant: all_dates as a list, which keeps a date once per symbol.
wf_sorted_dates_repeated(historical_prices) ==
    wf_dates_per_symbol(historical_prices, DOMAIN historical_prices)

\* sorted_dates = sorted(list(all_dates)), all_dates collecting the date of
\* every price entry of every symbol.
wf_sorted_dates(historical_prices) ==
    SortedDates(UNION {{historical_prices[s].prices[i].date :
                           i \in DOMAIN historical_prices[s].prices} :
                       s \in DOMAIN historical_prices})

\* The mutant: the last out-of-sample position is taken one too far and cut
\* back by the min() of the source.
out_sample_end_index_late(current_idx, in_sample_window, out_sample_window, n) ==
    Min(current_idx + in_sample_window + out_sample_window, n - 1)

\* 0-based position of out_sample_end in sorted_dates.
out_sample_end_index(current_idx, in_sample_window, out_sample_window, n) ==
    Min(current_idx + in_sample_window + out_sample_window - 1, n - 1)

\* Sharpe ratios are num / sqrt(sqrt_den), so their quotient and the
\* degradation are of the form base + coeff * sqrt(root).
Sign(n) == IF n > 0 THEN 1 ELSE IF n < 0 THEN -1 ELSE 0

\* A number base + coeff * sqrt(root), the three parts rational, root > 0.
Surd(base, coeff, root) ==
    [base |-> base, coeff |-> coeff, root |-> IF coeff = RZero THEN ROne ELSE root]

SurdOfInt(n) == Surd(Rat(n, 1), RZero, ROne)

\* a/b < c/d for naturals a, c and positive b, d, by the continued-fraction
\* expansions (no product is formed, the terms may be large).
RECURSIVE FractionLess(_, _, _, _)
FractionLess(a, b, c, d) ==
    IF a \div b # c \div d THEN a \div b < c \div d
    ELSE IF c % d = 0 THEN FALSE
    ELSE IF a % b = 0 THEN TRUE
    ELSE FractionLess(d, c % d, b, a % b)

\* -1, 0 or 1: the sign of x - c, c an integer.  When the rational part and
\* the root part pull apart, (base - c)^2 is weighed against coeff^2 * root.
SurdCompare(x, c) ==
    LET base == RSub(x.base, Rat(c, 1))
        sb == Sign(base[1])
        sc == Sign(x.coeff[1])
    IN  IF sc = 0 THEN sb
        ELSE IF sb = 0 \/ sb = sc THEN sc
        ELSE LET quotient == RDiv(base, x.coeff)
                 squared == RMul(quotient, quotient)
             IN  IF squared = x.root THEN 0
                 ELSE IF FractionLess(x.root[1], x.root[2], squared[1], squared[2])
                      THEN sb
                      ELSE sc

\* Lines 199-203: ((in_sharpe - out_sharpe) / abs(in_sharpe)) * 100, or 0.0
\* when in_sharpe is 0.
degradation(in_sharpe, out_sharpe) ==
    IF in_sharpe.num # RZero
    THEN Surd(Rat(100 * Sign(in_sharpe.num[1]), 1),
              RNeg(RMul(Rat(100, 1), RDiv(out_sharpe.num, RAbs(in_sharpe.num)))),
              RDiv(in_sharpe.sqrt_den, out_sharpe.sqrt_den))
    ELSE SurdOfInt(0)

\* Altered: the degradation is taken as it is.
overfitting_score_unclamped(d) == d

\* min(100, max(0, degradation))
overfitting_score(d) ==
    LET floor == IF SurdCompare(d, 0) > 0 THEN d ELSE SurdOfInt(0)
    IN  IF SurdCompare(floor, 100) >= 0 THEN SurdOfInt(100) ELSE floor

\* The mutant: the last window that fits is not entered.
wf_loop_guard_strict(w) ==
    w.current_idx + w.in_sample_window + w.out_sample_window < Len(w.sorted_dates)

\* 'while current_idx + in_sample_window + out_sample_window <= len(sorted_dates)'
wf_loop_guard(w) ==
    w.current_idx + w.in_sample_window + w.out_sample_window <= Len(w.sorted_dates)

WFIdle ==
    /\ wf = [pc |-> "idle", portfolio |-> PortfolioA, historical_prices |-> <<>>,
             in_sample_window |-> 1, out_sample_window |-> 1, step_size |-> 1,
             sorted_dates |-> <<>>, current_idx |-> 0, iteration |-> 0,
             results |-> <<>>, log |-> <<>>, returned |-> <<>>]
    /\ adv_walk_forward = <<>>

\* The object after construction and the arguments of the call to come.
WFStart ==
    /\ \E p \in WFPortfolios, i \in 1..MaxWindow, o \in 1..MaxWindow, st \in 1..MaxStep :
         \E hp \in WFProviderAnswers(SymbolsOf(p)) :
            wf = [pc |-> "idle", portfolio |-> p, historical_prices |-> hp,
                  in_sample_window |-> i, out_sample_window |-> o, step_size |-> st,
                  sorted_dates |-> <<>>, current_idx |-> 0, iteration |-> 0,
                  results |-> <<>>, log |-> <<>>, returned |-> <<>>]
    /\ adv_walk_forward = <<>>

\* Runs on a full timeline of six dates with closes that vary, so that the
\* Sharpe ratios of the two sub-periods differ: one holding, three in-sample
\* dates, two or three out-of-sample dates.
WFSharpeStart ==
    /\ \E closes \in [1..6 -> 1..3], o \in 2..3, st \in 1..2 :
          wf = [pc |-> "idle", portfolio |-> PortfolioA,
                historical_prices |-> [s \in {"A"} |-> [prices |-> PricesOfMap(closes)]],
                in_sample_window |-> 3, out_sample_window |-> o, step_size |-> st,
                sorted_dates |-> <<>>, current_idx |-> 0, iteration |-> 0,
                results |-> <<>>, log |-> <<>>, returned |-> <<>>]
    /\ adv_walk_forward = <<>>

\* Calls for two holdings on a timeline of any length up to the last date:
\* "B" is priced on every date of it, "A" on every date or on all but the
\* last; windows of one or two dates, so that a sub-period has at most one
\* return.
WFLiveStart ==
    /\ \E last \in {0} \cup WFDates, a_last \in {0, 1},
          i \in {1, 2}, o \in {1, 2}, st \in 1..MaxStep :
          wf = [pc |-> "idle", portfolio |-> PortfolioAB,
                historical_prices |->
                    [s \in {"A", "B"} |->
                        [prices |-> IF s = "A"
                                    THEN PricesOfMap([d \in 1..Max(last - a_last, 0) |-> 1])
                                    ELSE PricesOfMap([d \in 1..last |-> 1])]],
                in_sample_window |-> i, out_sample_window |-> o, step_size |-> st,
                sorted_dates |-> <<>>, current_idx |-> 0, iteration |-> 0,
                results |-> <<>>, log |-> <<>>, returned |-> <<>>]
    /\ adv_walk_forward = <<>>

\* Lines 136-160: fetch, build the timeline, return [] when it is too short.
WalkForwardBegin ==
    /\ wf.pc = "idle"
    /\ LET sd == wf_sorted_dates(wf.historical_prices)
       IN  IF Len(sd) < wf.in_sample_window + wf.out_sample_window
           THEN wf' = [wf EXCEPT !.pc = "done", !.sorted_dates = sd, !.returned = <<>>]
           ELSE wf' = [wf EXCEPT !.pc = "loop", !.sorted_dates = sd,
                                 !.current_idx = 0, !.iteration = 0, !.results = <<>>]
    /\ UNCHANGED adv_walk_forward
    /\ UNCHANGED <<bt_vars, mc_vars, tm_vars, call_vars>>

\* One pass of the while loop (lines 162-227).  The log keeps, per pass, the
\* window start, the four window bounds handed to _calculate_returns, the
\* number of returns of each sub-period and whether a result was appended.
WalkForwardIteration ==
    /\ wf.pc = "loop"
    /\ wf_loop_guard(wf)
    /\ LET sd == wf.sorted_dates
           idx == wf.current_idx
           in_sample_start == sd[idx + 1]
           in_sample_end == sd[idx + wf.in_sample_window - 1 + 1]
           out_sample_start == sd[idx + wf.in_sample_window + 1]
           out_sample_end == sd[out_sample_end_index(idx, wf.in_sample_window,
                                    wf.out_sample_window, Len(sd)) + 1]
       IN  \E in_values \in {returns_values(wf.portfolio, wf.historical_prices,
                                            in_sample_start, in_sample_end)},
              out_values \in {returns_values(wf.portfolio, wf.historical_prices,
                                             out_sample_start, out_sample_end)} :
             IF (Len(in_values) >= 2 /\ ReturnsRaise(in_values))
                \/ (Len(out_values) >= 2 /\ ReturnsRaise(out_values))
             THEN wf' = [wf EXCEPT !.pc = "ZeroDivisionError"]
             ELSE \E in_sample_returns \in
                        {_calculate_returns(wf.portfolio, wf.historical_prices,
                                            in_sample_start, in_sample_end)},
                     out_sample_returns \in
                        {_calculate_returns(wf.portfolio, wf.historical_prices,
                                            out_sample_start, out_sample_end)} :
                    \E in_sharpe \in
                           {sharpe_ratio(in_sample_returns, risk_free_rate,
                                         periods_per_year).value},
                       out_sharpe \in
                           {sharpe_ratio(out_sample_returns, risk_free_rate,
                                         periods_per_year).value} :
                      LET skip == in_sample_returns = <<>> \/ out_sample_returns = <<>>
                          entry == [idx |-> idx,
                                    in_sample_start |-> in_sample_start,
                                    in_sample_end |-> in_sample_end,
                                    out_sample_start |-> out_sample_start,
                                    out_sample_end |-> out_sample_end,
                                    in_returns |-> Len(in_sample_returns),
                                    out_returns |-> Len(out_sample_returns),
                                    emitted |-> ~skip]
                          result == [period |-> [start_date |-> in_sample_start,
                                                 end_date |-> out_sample_end,
                                                 description |-> wf.iteration + 1],
                                     in_sample_sharpe |-> in_sharpe,
                                     out_sample_sharpe |-> out_sharpe,
                                     degradation |-> degradation(in_sharpe, out_sharpe),
                                     overfitting_score |->
                                         overfitting_score(
                                             degradation(in_sharpe, out_sharpe))]
                      IN  wf' = [wf EXCEPT !.iteration = @ + 1,
                                           !.log = Append(@, entry),
                                           !.results = IF skip THEN @
                                                       ELSE Append(@, result),
                                           !.current_idx = @ + wf.step_size]
    /\ UNCHANGED adv_walk_forward
    /\ UNCHANGED <<bt_vars, mc_vars, tm_vars, call_vars>>

\* Lines 229-251: the loop has ended; store and return the results.
WalkForwardEnd ==
    /\ wf.pc = "loop"
    /\ ~wf_loop_guard(wf)
    /\ wf' = [wf EXCEPT !.pc = "done", !.returned = wf.results]
    /\ adv_walk_forward' = wf.results
    /\ UNCHANGED <<bt_vars, mc_vars, tm_vars, call_vars>>

\* A later call on the same object after one that returned results: the same
\* portfolio and windows over another period, priced on each of its dates.
WalkForwardAgain ==
    /\ wf.pc = "done"
    /\ wf.returned # <<>>
    /\ \E last \in {0} \cup WFDates :
          wf' = [wf EXCEPT !.pc = "idle",
                           !.historical_prices =
                               [s \in DOMAIN wf.historical_prices |->
                                   [prices |-> PricesOfMap([d \in 1..last |-> 1])]],
                           !.sorted_dates = <<>>, !.current_idx = 0, !.iteration = 0,
                           !.results = <<>>, !.log = <<>>, !.returned = <<>>]
    /\ UNCHANGED adv_walk_forward
    /\ UNCHANGED <<bt_vars, mc_vars, tm_vars, call_vars>>

---------------------------------------------------------------------------
(* HistoricalDataFetcher.calculate_portfolio_values and the backtester's
   valuation, as single calls *)

\* The 'prices' list of a symbol: historical_prices.get(symbol, {}).get('prices', [])
symbol_prices(historical_prices, symbol) ==
    IF symbol \in DOMAIN historical_prices THEN historical_prices[symbol].prices
    ELSE <<>>

\* price_on_date: the close of the first entry for the date; 0 stands for None
\* as well, both being false in 'if price_on_date:'.
price_on_date(prices, date) ==
    LET at == {i \in DOMAIN prices : prices[i].date = date}
    IN  IF at = {} THEN 0 ELSE prices[SetMin(at)].close

\* total_value of one date: the positions that have a price.
RECURSIVE priced_positions_value(_, _, _)
priced_positions_value(holdings, historical_prices, date) ==
    IF holdings = <<>> THEN 0
    ELSE LET h == Head(holdings)
         IN  h.shares * price_on_date(symbol_prices(historical_prices, h.symbol), date)
             + priced_positions_value(Tail(holdings), historical_prices, date)

\* One entry {date, total_value, holdings_value} per date of the price data
\* within the period; holdings_value has the symbols that had a price.
calculate_portfolio_values(holdings, historical_prices, start_date, end_date) ==
    LET dates == UNION {{historical_prices[s].prices[i].date :
                            i \in DOMAIN historical_prices[s].prices} :
                        s \in DOMAIN historical_prices}
        sorted_dates == SortedDates({d \in dates : ~(d < start_date \/ d > end_date)})
    IN  [k \in DOMAIN sorted_dates |->
            LET date == sorted_dates[k]
                priced == {i \in DOMAIN holdings :
                              price_on_date(symbol_prices(historical_prices,
                                                          holdings[i].symbol), date) # 0}
            IN  [date |-> date,
                 total_value |-> priced_positions_value(holdings, historical_prices, date),
                 holdings_value |->
                     [s \in {holdings[i].symbol : i \in priced} |->
                         LET last == CHOOSE i \in priced :
                                        /\ holdings[i].symbol = s
                                        /\ \A j \in priced :
                                               holdings[j].symbol = s => j <= i
                         IN  holdings[last].shares
                             * price_on_date(symbol_prices(historical_prices, s), date)]]]

ValuationStart ==
    \E fn \in {"calculate_portfolio_values", "_calculate_daily_portfolio_values"},
       portfolio \in Portfolios, period \in Periods :
       \E historical_prices \in ProviderAnswers(SymbolsOf(portfolio)) :
          call = NewCall(fn, [portfolio |-> portfolio,
                              historical_prices |-> historical_prices,
                              start_date |-> period.start_date,
                              end_date |-> period.end_date])

CalculatePortfolioValuesCall ==
    /\ Calling("calculate_portfolio_values")
    /\ Finish(Returned(calculate_portfolio_values(
                  call.args.portfolio.holdings, call.args.historical_prices,
                  call.args.start_date, call.args.end_date)))

DailyPortfolioValuesCall ==
    /\ Calling("_calculate_daily_portfolio_values")
    /\ Finish(Returned(_calculate_daily_portfolio_values(
                  call.args.portfolio, call.args.historical_prices,
                  call.args.start_date, call.args.end_date)))

---------------------------------------------------------------------------
(* The statistics of monte_carlo_simulation (lines 328-346) on given lists of
   path returns *)

\* Long lists: TailLen paths, the shortest run with a non-empty worst-5%
\* slice; three of the paths (the first two and the last) are chosen freely.
LongReturnLists ==
    {[i \in 1..TailLen |-> IF i = 1 THEN a ELSE IF i = 2 THEN b
                           ELSE IF i = TailLen THEN c ELSE d] :
        a \in ReturnValues, b \in ReturnValues, c \in ReturnValues, d \in ReturnValues}

MCStatsStart ==
    \E final_returns \in ReturnLists \cup LongReturnLists :
        call = NewCall("monte_carlo_statistics", [final_returns |-> final_returns])

\* statistics.stdev (line 333) needs two paths, statistics.mean one.
MonteCarloStatisticsCall ==
    /\ Calling("monte_carlo_statistics")
    /\ Finish(IF Len(call.args.final_returns) < 2
              THEN Raised("StatisticsError")
              ELSE Returned(MonteCarloStatistics(Len(call.args.final_returns),
                                                 call.args.final_returns)))

---------------------------------------------------------------------------
(* PortfolioBacktester.validate_predictions, _grade_error and
   compare_strategies, as single calls on given BacktestResults *)

error_pct_unknown == 999

\* Altered: the last tier is not cut off at 0.
poor_grade_unclamped(error_pct, t2) ==
    RSub(Rat(50, 1), RSub(error_pct, t2))

\* max(0, 50 - (error_pct - thresholds[2]))
poor_grade(error_pct, t2) ==
    LET grade == RSub(Rat(50, 1), RSub(error_pct, t2))
    IN  IF RLess(grade, RZero) THEN RZero ELSE grade

\* thresholds is a list of three integers; only the first division can be by
\* zero (the second and third tiers are entered with t0 < error_pct <= t1 and
\* t1 < error_pct <= t2).
_grade_error(error_pct, thresholds) ==
    LET t0 == Rat(thresholds[1], 1)
        t1 == Rat(thresholds[2], 1)
        t2 == Rat(thresholds[3], 1)
    IN  IF RLeq(error_pct, t0)
        THEN IF t0 = RZero THEN Raised("ZeroDivisionError")
             ELSE Returned(RSub(Rat(100, 1), RMul(RDiv(error_pct, t0), Rat(10, 1))))
        ELSE IF RLeq(error_pct, t1)
        THEN Returned(RSub(Rat(90, 1),
                           RMul(RDiv(RSub(error_pct, t0), RSub(t1, t0)), Rat(15, 1))))
        ELSE IF RLeq(error_pct, t2)
        THEN Returned(RSub(Rat(75, 1),
                           RMul(RDiv(RSub(error_pct, t1), RSub(t2, t1)), Rat(25, 1))))
        ELSE Returned(poor_grade(error_pct, t2))

return_thresholds == <<10, 25, 50>>
sharpe_thresholds == <<20, 40, 60>>
volatility_thresholds == <<15, 30, 50>>
drawdown_thresholds == <<5, 10, 20>>

CRITICAL ==
    "CRITICAL: Prediction accuracy is poor. Review model assumptions and data quality."
WARNING ==
    "WARNING: Prediction accuracy is moderate. Consider refining risk parameters."
GOOD ==
    "GOOD: Predictions are reasonably accurate. Model appears reliable."

\* Altered: the boundaries 60 and 75 fall into the lower tier.
recommendation_inclusive(overall_quality_score) ==
    IF RLeq(overall_quality_score, Rat(60, 1)) THEN CRITICAL
    ELSE IF RLeq(overall_quality_score, Rat(75, 1)) THEN WARNING
    ELSE GOOD

recommendation(overall_quality_score) ==
    IF RLess(overall_quality_score, Rat(60, 1)) THEN CRITICAL
    ELSE IF RLess(overall_quality_score, Rat(75, 1)) THEN WARNING
    ELSE GOOD

\* The keys of validation["validations"], in the order they are inserted.
validation_keys == <<"return_prediction", "sharpe_ratio", "volatility", "max_drawdown">>

\* The metric of predicted_metrics each key is graded from.
predicted_key(key) ==
    IF key = "return_prediction" THEN "expected_return" ELSE key

\* One entry of validation["validations"].
validation_entry(key, predicted, actual_backtest) ==
    CASE key = "return_prediction" ->
            LET actual_return == actual_backtest.annualized_return_pct
                error == RAbs(RSub(predicted, actual_return))
                error_pct == IF actual_return # RZero
                             THEN RMul(RDiv(error, RAbs(actual_return)), Rat(100, 1))
                             ELSE Rat(error_pct_unknown, 1)
            IN  [predicted |-> predicted, actual |-> actual_return, error |-> error,
                 error_pct |-> error_pct,
                 grade |-> _grade_error(error_pct, return_thresholds).value]
      [] key = "sharpe_ratio" ->
            LET error == RAbs(RSub(predicted, actual_backtest.sharpe_ratio))
            IN  [predicted |-> predicted, actual |-> actual_backtest.sharpe_ratio,
                 error |-> error,
                 grade |-> _grade_error(RMul(error, Rat(100, 1)), sharpe_thresholds).value]
      [] key = "volatility" ->
            LET actual_vol == actual_backtest.volatility
                error == RAbs(RSub(predicted, actual_vol))
                error_pct == IF actual_vol # RZero
                             THEN RMul(RDiv(error, actual_vol), Rat(100, 1))
                             ELSE Rat(error_pct_unknown, 1)
            IN  [predicted |-> predicted, actual |-> actual_vol, error |-> error,
                 error_pct |-> error_pct,
                 grade |-> _grade_error(error_pct, volatility_thresholds).value]
      [] key = "max_drawdown" ->
            LET error == RAbs(RSub(predicted, actual_backtest.max_drawdown_pct))
            IN  [predicted |-> predicted, actual |-> actual_backtest.max_drawdown_pct,
                 error |-> error,
                 grade |-> _grade_error(error, drawdown_thresholds).value]

\* The returned dict without its timestamp.
validate_predictions(predicted_metrics, actual_backtest) ==
    LET graded == SelectSeq(validation_keys,
                      LAMBDA key : predicted_key(key) \in DOMAIN predicted_metrics)
        validations ==
            [key \in Range(graded) |->
                validation_entry(key, predicted_metrics[predicted_key(key)],
                                 actual_backtest)]
        grades == [i \in DOMAIN graded |-> validations[graded[i]].grade]
        overall_quality_score == IF grades # <<>> THEN MeanRat(grades) ELSE RZero
    IN  [period |-> actual_backtest.period,
         validations |-> validations,
         overall_quality_score |-> overall_quality_score,
         recommendations |-> <<recommendation(overall_quality_score)>>]

\* Altered: of two equal keys the later entry comes first.
later_first(i, j) == i > j

\* sorted() is stable, also with reverse=True: of two equal keys the earlier
\* entry comes first.
earlier_first(i, j) == i < j

\* sorted(enumerate(results), key=..., reverse=descending) as the list of
\* 1-based positions of results; keys is the list of the keys.
sorted_enumerate(keys, descending) ==
    LET ahead(j, i) ==
            \/ IF descending THEN RLess(keys[i], keys[j]) ELSE RLess(keys[j], keys[i])
            \/ keys[j] = keys[i] /\ earlier_first(j, i)
        place(i) == Cardinality({j \in DOMAIN keys : ahead(j, i)}) + 1
    IN  [k \in DOMAIN keys |-> CHOOSE i \in DOMAIN keys : place(i) = k]

\* [{"rank": i+1, "index": idx, "value": ...}]; index is 0-based.
ranking(keys, descending) ==
    LET order == sorted_enumerate(keys, descending)
    IN  [k \in DOMAIN keys |->
            [rank |-> k, index |-> order[k] - 1, value |-> keys[order[k]]]]

MaxRat(s) == CHOOSE v \in Range(s) : \A i \in DOMAIN s : RLeq(s[i], v)
MinRat(s) == CHOOSE v \in Range(s) : \A i \in DOMAIN s : RLeq(v, s[i])

\* The returned dict; metrics.returns.std_dev (a square root) is left out.
compare_strategies(strategy_results) ==
    IF strategy_results = <<>> THEN [error |-> "No results to compare"]
    ELSE LET returns == [i \in DOMAIN strategy_results |->
                            strategy_results[i].annualized_return_pct]
             sharpes == [i \in DOMAIN strategy_results |->
                            strategy_results[i].sharpe_ratio]
             drawdowns == [i \in DOMAIN strategy_results |->
                              strategy_results[i].max_drawdown_pct]
             first == strategy_results[sorted_enumerate(sharpes, TRUE)[1]]
         IN  [num_strategies |-> Len(strategy_results),
              metrics |->
                  [returns |-> [best |-> MaxRat(returns), worst |-> MinRat(returns),
                                average |-> MeanRat(returns)],
                   sharpe_ratios |-> [best |-> MaxRat(sharpes),
                                      worst |-> MinRat(sharpes),
                                      average |-> MeanRat(sharpes)],
                   max_drawdowns |-> [best |-> MinRat(drawdowns),
                                      worst |-> MaxRat(drawdowns),
                                      average |-> MeanRat(drawdowns)]],
              rankings |-> [by_sharpe |-> ranking(sharpes, TRUE),
                            by_return |-> ranking(returns, TRUE),
                            by_drawdown |-> ranking(drawdowns, FALSE)],
              winner |-> [index |-> sorted_enumerate(sharpes, TRUE)[1] - 1,
                          reason |-> "Best Sharpe ratio (risk-adjusted return)",
                          metrics |-> [sharpe |-> first.sharpe_ratio,
                                       return |-> first.annualized_return_pct,
                                       drawdown |-> first.max_drawdown_pct]]]

\* Arguments of _grade_error: the four threshold lists of validate_predictions
\* and the ascending lists over 0..3; errors from 0 to the placeholder.
ThresholdLists ==
    {return_thresholds, sharpe_thresholds, volatility_thresholds, drawdown_thresholds}
    \cup {<<a, b, c>> : a \in 0..1, b \in 1..2, c \in 2..3}
GradedErrors ==
    {Rat(n, 2) : n \in 0..8}
    \cup {Rat(n, 1) : n \in {5, 10, 15, 20, 25, 30, 40, 50, 51, 60, 61, 100, 110,
                             error_pct_unknown}}

\* BacktestResults: the fields the two functions read.
ResultPeriod == [start_date |-> 1, end_date |-> MaxDate]
ActualBacktests ==
    {[period |-> ResultPeriod, annualized_return_pct |-> Rat(r, 1),
      sharpe_ratio |-> ROne, volatility |-> Rat(v, 1), max_drawdown_pct |-> Rat(10, 1)] :
        r \in {0, 10}, v \in {0, 20}}
ComparedBacktests ==
    {[period |-> ResultPeriod, annualized_return_pct |-> Rat(r, 1),
      sharpe_ratio |-> sh, volatility |-> Rat(20, 1), max_drawdown_pct |-> Rat(d, 1)] :
        r \in {5, 10}, sh \in {Rat(1, 2), Rat(6, 5), Rat(4, 5)}, d \in {10, 20}}

\* predicted_metrics: any of the four recognized metrics and one that is not.
PredictedValues(metric) ==
    CASE metric = "expected_return" -> {Rat(10, 1), Rat(12, 1), Rat(20, 1)}
      [] metric = "sharpe_ratio" -> {Rat(1, 2), ROne}
      [] metric = "volatility" -> {Rat(20, 1), Rat(25, 1)}
      [] metric = "max_drawdown" -> {Rat(10, 1), Rat(20, 1), Rat(40, 1)}
      [] metric = "alpha" -> {ROne}
PredictedMetrics ==
    LET metrics == {"expected_return", "sharpe_ratio", "volatility", "max_drawdown",
                    "alpha"}
        values == UNION {PredictedValues(m) : m \in metrics}
    IN  UNION {{f \in [present -> values] :
                   \A m \in present : f[m] \in PredictedValues(m)} :
               present \in SUBSET metrics}

\* The backtester whose results list is given.
Backtester(backtester_results) ==
    /\ bt_in = [portfolio |-> PortfolioEmpty,
                historical_prices |-> <<>>,
                period |-> [start_date |-> 1, end_date |-> 1]]
    /\ bt_results = backtester_results
    /\ bt_last = [calls |-> 0, outcome |-> "none"]

ValidationStart ==
    \/ \E error_pct \in GradedErrors, thresholds \in ThresholdLists :
          /\ call = NewCall("_grade_error", [error_pct |-> error_pct,
                                             thresholds |-> thresholds])
          /\ Backtester(<<>>)
    \/ \E predicted_metrics \in PredictedMetrics, actual_backtest \in ActualBacktests :
          /\ call = NewCall("validate_predictions",
                            [predicted_metrics |-> predicted_metrics,
                             actual_backtest |-> actual_backtest])
          /\ Backtester(<<actual_backtest>>)
    \/ \E strategy_results \in ListsUpTo(ComparedBacktests, MaxLen) :
          /\ call = NewCall("compare_strategies", [results |-> strategy_results])
          /\ Backtester(strategy_results)

GradeErrorCall ==
    /\ Calling("_grade_error")
    /\ Finish(_grade_error(call.args.error_pct, call.args.thresholds))

ValidatePredictionsCall ==
    /\ Calling("validate_predictions")
    /\ Finish(Returned(validate_predictions(call.args.predicted_metrics,
                                            call.args.actual_backtest)))

CompareStrategiesCall ==
    /\ Calling("compare_strategies")
    /\ Finish(Returned(compare_strategies(call.args.results)))

---------------------------------------------------------------------------
(* PortfolioSafetyHooks.pre_trade_hook, as a single call.  A symbol is the
   sequence of its characters. *)

SPY == <<"S", "P", "Y">>
TQQQ == <<"T", "Q", "Q", "Q">>
SQQQ == <<"S", "Q", "Q", "Q">>
UPRO == <<"U", "P", "R", "O">>
tqqq == <<"t", "q", "q", "q">>

\* str.upper() on the characters that occur in the symbols used.
UpperChar(c) == IF c = "t" THEN "T" ELSE IF c = "q" THEN "Q" ELSE c
Upper(symbol) == [i \in DOMAIN symbol |-> UpperChar(symbol[i])]

\* 'pattern in text' for strings
Contains(text, pattern) ==
    \E i \in 0..(Len(text) - Len(pattern)) :
        SubSeq(text, i + 1, i + Len(pattern)) = pattern

\* ['3X', 'TQQQ', 'SQQQ', 'UPRO', 'SPXU']
leverage_patterns ==
    {<<"3", "X">>, TQQQ, SQQQ, UPRO, <<"S", "P", "X", "U">>}

Decision(permissionDecision, reason) ==
    [permissionDecision |-> permissionDecision, reason |-> reason]

\* trade_value / new_value if new_value > 0 else 0
position_weight(shares, price, current_value) ==
    LET trade_value == shares * price
        new_value == current_value + trade_value
    IN  IF new_value > 0 THEN Rat(trade_value, new_value) ELSE RZero

\* The five checks in the order of the source; the first that applies
\* returns.  trade.average_cost is trade_data.get('average_cost', price).
pre_trade_hook(constraints, trade) ==
    IF \E i \in DOMAIN constraints.forbidden_symbols :
           constraints.forbidden_symbols[i] = trade.symbol
    THEN Decision("deny", "forbidden list")
    ELSE IF \E pattern \in leverage_patterns : Contains(Upper(trade.symbol), pattern)
    THEN Decision("warn", "leveraged ETF")
    ELSE IF /\ trade.action = "BUY"
            /\ RLess(constraints.max_position_size,
                     position_weight(trade.shares, trade.price,
                                     trade.current_portfolio.total_value))
    THEN Decision("deny", "position size")
    ELSE IF /\ trade.action = "SELL"
            /\ trade.average_cost > 0
            /\ RLess(Rat(trade.price - trade.average_cost, trade.average_cost),
                     constraints.max_loss_threshold)
    THEN Decision("warn", "selling at loss")
    ELSE IF trade.shares <= 0 \/ trade.price <= 0
    THEN Decision("deny", "invalid trade")
    ELSE Decision("allow", "validated")

\* Constraints handed to the constructor and trades handed to the hook.
HookConstraints ==
    [max_position_size : {Rat(7, 20), Rat(1, 2)},
     max_loss_threshold : {Rat(-1, 10)},
     forbidden_symbols : {<<>>, <<TQQQ, SQQQ>>, <<SPY>>}]

Trades ==
    UNION {[symbol : {SPY, TQQQ, UPRO, tqqq},
            action : {"BUY", "SELL", "HOLD"},
            shares : {0, 1, 10},
            price : {price},
            average_cost : {price, 0, 1, 5},
            current_portfolio : [total_value : {0, 10, 100}]] : price \in {0, 1, 5}}

HooksStart ==
    \E constraints \in HookConstraints, trade \in Trades :
        call = NewCall("pre_trade_hook", [constraints |-> constraints, trade |-> trade])

PreTradeHookCall ==
    /\ Calling("pre_trade_hook")
    /\ Finish(Returned(pre_trade_hook(call.args.constraints, call.args.trade)))

---------------------------------------------------------------------------
(* Specifications *)

BTInit == BTStart /\ WFIdle /\ MCIdle /\ TMIdle /\ CallIdle
BTNext == RunBacktest
SpecBT == BTInit /\ [][BTNext]_vars

WFInit == WFStart /\ BTIdle /\ MCIdle /\ TMIdle /\ CallIdle
WFNext == WalkForwardBegin \/ WalkForwardIteration \/ WalkForwardEnd
SpecWF == WFInit /\ [][WFNext]_vars
\* The coroutine is awaited to its end: a call that can take a step takes it.
WFLiveInit == WFLiveStart /\ BTIdle /\ MCIdle /\ TMIdle /\ CallIdle
SpecWFLive == WFLiveInit /\ [][WFNext]_vars /\ WF_vars(WFNext)
WFRepeatNext == WFNext \/ WalkForwardAgain
SpecWFRepeat == WFLiveInit /\ [][WFRepeatNext]_vars

MCInit == MCStart /\ BTIdle /\ WFIdle /\ TMIdle /\ CallIdle
MCNext == MonteCarloBegin \/ MonteCarloPath \/ MonteCarloEnd
SpecMC == MCInit /\ [][MCNext]_vars
MCGrowthInit == MCGrowthStart /\ BTIdle /\ WFIdle /\ TMIdle /\ CallIdle
SpecMCGrowth == MCGrowthInit /\ [][MCNext]_vars

TMInit == TMStart /\ BTIdle /\ WFIdle /\ MCIdle /\ CallIdle
TMNext ==
    \/ run_monte_carlo_background
    \/ run_walk_forward_background
    \/ TaskStart
    \/ MonteCarloTaskPath
    \/ MonteCarloTaskFinish
    \/ WalkForwardTaskResume
    \/ CallbackResume
    \/ cancel_task
    \/ wait_for_task_timeout
SpecTasks == TMInit /\ [][TMNext]_vars

PerfInit == PerfStart /\ BTIdle /\ WFIdle /\ MCIdle /\ TMIdle
PerfNext ==
    \/ CalculateReturnsCall
    \/ TotalReturnCall
    \/ MaxDrawdownCall
    \/ UlcerIndexCall
    \/ SharpeRatioCall
    \/ CalmarRatioCall
    \/ BetaCall
    \/ InformationRatioCall
    \/ ValueAtRiskCall
    \/ ConditionalVarCall
SpecPerf == PerfInit /\ [][PerfNext]_vars

ValuationInit == ValuationStart /\ BTIdle /\ WFIdle /\ MCIdle /\ TMIdle
ValuationNext == CalculatePortfolioValuesCall \/ DailyPortfolioValuesCall
SpecValuation == ValuationInit /\ [][ValuationNext]_vars

MCStatsInit == MCStatsStart /\ BTIdle /\ WFIdle /\ MCIdle /\ TMIdle
MCStatsNext == MonteCarloStatisticsCall
SpecMCStats == MCStatsInit /\ [][MCStatsNext]_vars

ValidationInit == ValidationStart /\ WFIdle /\ MCIdle /\ TMIdle
ValidationNext ==
    \/ GradeErrorCall
    \/ ValidatePredictionsCall
    \/ CompareStrategiesCall
SpecValidation == ValidationInit /\ [][ValidationNext]_vars

WFSharpeInit == WFSharpeStart /\ BTIdle /\ MCIdle /\ TMIdle /\ CallIdle
SpecWFSharpe == WFSharpeInit /\ [][WFNext]_vars

\* Two calls of monte_carlo_simulation with identical arguments.
MCRepeatNext == MCNext \/ MonteCarloAgain
SpecMCRepeat == MCInit /\ [][MCRepeatNext]_vars

HooksInit == HooksStart /\ BTIdle /\ WFIdle /\ MCIdle /\ TMIdle
HooksNext == PreTradeHookCall
SpecHooks == HooksInit /\ [][HooksNext]_vars

---------------------------------------------------------------------------
(* Properties of run_backtest and of the valuation *)

\* The provider's raw answer has a price for the symbol on the date.
Priced(historical_prices, symbol, d) ==
    /\ symbol \in DOMAIN historical_prices
    /\ \E i \in DOMAIN historical_prices[symbol].prices :
           historical_prices[symbol].prices[i].date = d

FullCoverage(portfolio, historical_prices, d) ==
    \A i \in DOMAIN portfolio.holdings :
        Priced(historical_prices, portfolio.holdings[i].symbol, d)

\* C1: every call of run_backtest returns a BacktestResult and appends exactly
\* that result to self.results, whatever the provider returned; a result
\* computed without any daily valuation carries a validation error.
C1_RunBacktestNeverRaises ==
    bt_last.calls > 0 =>
        /\ bt_last.outcome = "returned"
        /\ Len(bt_results) = bt_last.calls
        /\ \A i \in DOMAIN bt_results :
               bt_results[i].num_days = 0 => bt_results[i].validation_errors # <<>>

\* C2: a date is in the valuation sequence only if every holding has a close
\* on it: the dated sequence of PortfolioBacktester holds fully covered dates
\* only, and the value lists of AdvancedBacktester have exactly one value per
\* fully covered date (of the whole data, of the period).
C2_OnlyFullyCoveredDates ==
    LET p == bt_in.portfolio
        hp == bt_in.historical_prices
        per == bt_in.period
        dv == _calculate_daily_portfolio_values(p, hp, per.start_date, per.end_date)
        covered == {d \in Dates : /\ \E s \in DOMAIN hp : Priced(hp, s, d)
                                  /\ FullCoverage(p, hp, d)}
        inPeriod == {d \in covered : per.start_date <= d /\ d <= per.end_date}
    IN  /\ \A i \in DOMAIN dv : FullCoverage(p, hp, dv[i].date)
        /\ Len(_calculate_daily_values(p, hp)) = Cardinality(covered)
        /\ Len(returns_values(p, hp, per.start_date, per.end_date))
               = Cardinality(inPeriod)
        /\ ~ReturnsRaise(returns_values(p, hp, per.start_date, per.end_date)) =>
               Len(_calculate_returns(p, hp, per.start_date, per.end_date))
                   = Max(0, Cardinality(inPeriod) - 1)

\* C2 witness: run_backtest has valued a two-holding portfolio over a period
\* holding a date priced for one holding only, and kept another date.
C2_Witness ==
    /\ bt_last.calls > 0 /\ bt_last.outcome = "returned"
    /\ Len(bt_in.portfolio.holdings) = 2
    /\ bt_results[1].num_days > 0
    /\ \E d \in Dates :
           /\ bt_in.period.start_date <= d /\ d <= bt_in.period.end_date
           /\ Priced(bt_in.historical_prices, "A", d)
           /\ ~Priced(bt_in.historical_prices, "B", d)

---------------------------------------------------------------------------
(* Properties of walk_forward_analysis *)

\* C3: the timeline the windows are indexed over holds only dates on which
\* every holding has a price.
C3_TimelineHasFullCoverage ==
    wf.pc # "idle" =>
        \A i \in DOMAIN wf.sorted_dates :
            FullCoverage(wf.portfolio, wf.historical_prices, wf.sorted_dates[i])

\* C4: a pass in which the in-sample or the out-of-sample sub-period has fewer
\* than 2 return observations appends no result; the window start has moved
\* on by step_size after every pass and the run has not been aborted.
C4_SkipsBelowTwoReturns ==
    /\ \A k \in DOMAIN wf.log :
           (wf.log[k].in_returns < 2 \/ wf.log[k].out_returns < 2) => ~wf.log[k].emitted
    /\ wf.pc = "loop" => wf.current_idx = Len(wf.log) * wf.step_size
    /\ wf.pc \in {"idle", "loop", "done"}

\* The window starts the loop visits: 0, step_size, 2*step_size, ... as long
\* as both windows fit into the timeline.
WindowStarts(w) ==
    {i \in 0..Len(w.sorted_dates) :
        /\ i % w.step_size = 0
        /\ i + w.in_sample_window + w.out_sample_window <= Len(w.sorted_dates)}

EmittedPasses(w) == SelectSeq(w.log, LAMBDA e : e.emitted)

\* C5: a finished run has made one pass per window start, in increasing
\* order, each over dates[idx .. idx+in-1] and the next out_sample_window
\* dates, and has returned exactly one result per pass that was not skipped,
\* in that order, its period running from dates[idx] to
\* dates[idx+in+out-1].
C5_OneResultPerCompletedWindow ==
    (wf.pc = "done"
     /\ Len(wf.sorted_dates) >= wf.in_sample_window + wf.out_sample_window) =>
        LET sd == wf.sorted_dates
            i == wf.in_sample_window
            o == wf.out_sample_window
            em == EmittedPasses(wf)
        IN  /\ Len(wf.log) = Cardinality(WindowStarts(wf))
            /\ \A k \in DOMAIN wf.log :
                   LET e == wf.log[k] IN
                   /\ e.idx = (k - 1) * wf.step_size
                   /\ e.in_sample_start = sd[e.idx + 1]
                   /\ e.in_sample_end = sd[e.idx + i]
                   /\ e.out_sample_start = sd[e.idx + i + 1]
                   /\ e.out_sample_end = sd[e.idx + i + o]
            /\ Len(wf.returned) = Len(em)
            /\ \A j \in DOMAIN wf.returned :
                   /\ wf.returned[j].period.start_date = sd[em[j].idx + 1]
                   /\ wf.returned[j].period.end_date = sd[em[j].idx + i + o]

\* C5 witness: a finished run of several passes, of which one was skipped
\* and a later or earlier one returned a result.
C5_Witness ==
    /\ wf.pc = "done"
    /\ Len(wf.returned) >= 1
    /\ Len(wf.log) > Len(wf.returned)

\* C6: a Monte Carlo call (here one asking for at least 2 paths over at
\* least 1 day) whose input yields fewer than 2 historical daily returns (at
\* most 2 daily values) runs no simulation and raises nothing: it is either
\* not yet started or has returned the zero-filled result with
\* num_simulations = 0.
C6_InsufficientDataYieldsZeroResult ==
    (/\ mc.calls >= 1
     /\ mc.num_simulations >= 2
     /\ mc.horizon_days >= 1
     /\ Len(_calculate_daily_values(mc.portfolio, mc.historical_prices)) <= 2)
    => /\ mc.pc \in {"idle", "done"}
       /\ mc.pc = "done" => mc.returned = ZeroMonteCarloResult

SoleUser(c) ==
    \A b \in DOMAIN coros : b # c => coros[b].task_id # coros[c].task_id

AfterPublish == {"callback", "returned", "CallbackError", "CancelledError"}

\* C7: for a Monte Carlo task that is the only one submitted under its
\* task_id, get_result shows a result only once the task has generated all
\* num_simulations paths and aggregated them; while it is scheduled or
\* simulating, and after it was cancelled or failed before that point,
\* get_result returns None.
C7_NoResultBeforeAllPaths ==
    \A c \in DOMAIN coros :
        (/\ coros[c].kind = "monte_carlo"
         /\ SoleUser(c)
         /\ get_result(coros[c].task_id) # None)
        => /\ coros[c].pc \in AfterPublish
           /\ Len(coros[c].simulated_returns) = coros[c].args.num_simulations
           /\ get_result(coros[c].task_id).num_simulations
                 = coros[c].args.num_simulations

\* A running task right after a progress update, with nothing published.
C7_Witness ==
    \E c \in DOMAIN coros :
        /\ coros[c].kind = "monte_carlo"
        /\ SoleUser(c)
        /\ coros[c].pc = "simulate"
        /\ coros[c].simulated_returns # <<>>
        /\ get_status(coros[c].task_id).status = "running"
        /\ get_status(coros[c].task_id).progress = ROne
        /\ get_result(coros[c].task_id) = None

\* C8: get_result(task_id) is non-None only while get_status(task_id)
\* reports 'completed'; stated here for the two statuses the claim singles
\* out: a task_id whose status is 'cancelled' or 'running' exposes no result.
C8_ResultOnlyWhileCompleted ==
    \A task_id \in TaskIds :
        get_status(task_id).status \in {"cancelled", "running"}
        => get_result(task_id) = None

\* C9: once the coroutine of the task registered under a task_id has ended
\* (returned, raised, or was cancelled by cancel_task or by a wait_for_task
\* timeout), the status of that task_id is 'completed', 'failed' or
\* 'cancelled', never 'running'.
C9_EndedTaskHasTerminalStatus ==
    \A task_id \in DOMAIN tasks :
        done(coros[tasks[task_id]])
        => get_status(task_id).status \in {"completed", "failed", "cancelled"}

\* C10: two calls of monte_carlo_simulation with identical portfolio, prices,
\* num_simulations and horizon_days (there is no seed argument to vary)
\* produce identical results.
C10_SameInputsSameResult ==
    Len(adv_monte_carlo) = 2 => adv_monte_carlo[1] = adv_monte_carlo[2]

---------------------------------------------------------------------------
(* PerformanceCalculator: properties of single calls *)

PerMetricFunctions ==
    {"calculate_returns", "total_return", "max_drawdown", "ulcer_index",
     "sharpe_ratio", "calmar_ratio", "information_ratio"}

\* C11: no per-metric function of PerformanceCalculator raises on degenerate
\* input: a call of calculate_returns, total_return, max_drawdown,
\* ulcer_index, sharpe_ratio, calmar_ratio or information_ratio (on series of
\* equal length) returns a value, also when a previous value, the initial
\* value or the running peak is exactly zero.
C11_PerMetricFunctionsNeverRaise ==
    (/\ call.fn \in PerMetricFunctions
     /\ call.out # Pending
     /\ call.fn = "information_ratio" =>
            Len(call.args.portfolio_returns) = Len(call.args.benchmark_returns))
    => call.out.outcome = "returned"

\* C12: beta and information_ratio fail with the series-length-mismatch error
\* (ValueError) whenever the two series differ in length, also when either has
\* fewer than two samples; for series of equal length they never fail: beta
\* returns 1.0 for fewer than two samples or a benchmark variance of zero,
\* information_ratio returns 0.0 for fewer than two samples or a tracking
\* error of zero.
C12_LengthMismatchFailsEqualLengthsReturn ==
    (call.fn \in {"beta", "information_ratio"} /\ call.out # Pending) =>
        LET p == call.args.portfolio_returns
            b == call.args.benchmark_returns
            excess == [i \in DOMAIN p |-> RSub(p[i], b[i])]
        IN  IF Len(p) # Len(b)
            THEN call.out.outcome = "ValueError"
            ELSE /\ call.out.outcome = "returned"
                 /\ (call.fn = "beta" /\ (Len(p) < 2 \/ variance(b) = RZero))
                        => call.out.value = ROne
                 /\ (call.fn = "information_ratio"
                        /\ (Len(p) < 2 \/ variance(excess) = RZero))
                        => call.out.value = NeutralRatio

\* beta has been called with a one-sample series against a two-sample
\* benchmark and has failed.
C12_Witness ==
    /\ call.fn = "beta"
    /\ Len(call.args.portfolio_returns) = 1
    /\ Len(call.args.benchmark_returns) = 2
    /\ call.out = Raised("ValueError")

---------------------------------------------------------------------------
(* Valuation: properties of single calls *)

\* The symbol has an entry for the date in the provider's answer.
Quoted(historical_prices, symbol, date) ==
    /\ symbol \in DOMAIN historical_prices
    /\ \E i \in DOMAIN historical_prices[symbol].prices :
           historical_prices[symbol].prices[i].date = date

Quote(historical_prices, symbol, date) ==
    LET prices == historical_prices[symbol].prices
    IN  prices[CHOOSE i \in DOMAIN prices : prices[i].date = date].close

FullyQuoted(portfolio, historical_prices, date) ==
    \A i \in DOMAIN portfolio.holdings :
        Quoted(historical_prices, portfolio.holdings[i].symbol, date)

\* C13: HistoricalDataFetcher.calculate_portfolio_values never emits a partial
\* valuation: every date of its output is a date on which each holding has a
\* price.
C13_NoPartialValuation ==
    (call.fn = "calculate_portfolio_values" /\ call.out # Pending) =>
        \A k \in DOMAIN call.out.value :
            FullyQuoted(call.args.portfolio, call.args.historical_prices,
                        call.out.value[k].date)

RECURSIVE PositionsSum(_, _, _, _)
PositionsSum(holdings, historical_prices, date, n) ==
    IF n = 0 THEN 0
    ELSE holdings[n].shares * Quote(historical_prices, holdings[n].symbol, date)
         + PositionsSum(holdings, historical_prices, date, n - 1)

\* C14: the output of PortfolioBacktester._calculate_daily_portfolio_values
\* has strictly ascending dates (so none twice), all within
\* [start_date, end_date]; every entry is for a date on which each holding
\* has a price and its total_value is the sum of shares * close over the
\* holdings plus the cash, counted once; the dates are exactly the dates of
\* the price data in the period with full coverage, so the output is empty
\* when there is none.
C14_DailyValuesAscendingCompleteAndSummed ==
    (call.fn = "_calculate_daily_portfolio_values" /\ call.out # Pending) =>
        LET out == call.out.value
            portfolio == call.args.portfolio
            historical_prices == call.args.historical_prices
            covered == {d \in Dates :
                           /\ call.args.start_date <= d
                           /\ d <= call.args.end_date
                           /\ \E s \in DOMAIN historical_prices :
                                  Quoted(historical_prices, s, d)
                           /\ FullyQuoted(portfolio, historical_prices, d)}
        IN  /\ \A i \in DOMAIN out, j \in DOMAIN out :
                   i < j => out[i].date < out[j].date
            /\ {out[k].date : k \in DOMAIN out} = covered
            /\ \A k \in DOMAIN out :
                   out[k].total_value =
                       PositionsSum(portfolio.holdings, historical_prices,
                                    out[k].date, Len(portfolio.holdings))
                       + portfolio.cash

\* Two holdings and cash, two dates valued and a date of the period left out
\* because one holding has no price on it.
C14_Witness ==
    /\ call.fn = "_calculate_daily_portfolio_values"
    /\ call.out # Pending
    /\ call.args.portfolio = PortfolioAB
    /\ Len(call.out.value) = 2
    /\ \E d \in Dates :
           /\ call.args.start_date <= d
           /\ d <= call.args.end_date
           /\ Quoted(call.args.historical_prices, "A", d)
           /\ ~Quoted(call.args.historical_prices, "B", d)

---------------------------------------------------------------------------
(* Monte Carlo statistics: properties of single calls *)

\* The element at 0-based position k of the ascending arrangement of s.
OrderStatistic(s, k) ==
    CHOOSE v \in Range(s) : CountLess(s, v) <= k /\ k < CountLeq(s, v)

RECURSIVE SmallestSum(_, _)
SmallestSum(s, k) ==
    IF k = 0 THEN RZero
    ELSE RAdd(OrderStatistic(s, k - 1), SmallestSum(s, k - 1))

\* The list with the paths at positions i and j exchanged.
Exchanged(s, i, j) ==
    [k \in DOMAIN s |-> IF k = i THEN s[j] ELSE IF k = j THEN s[i] ELSE s[k]]

\* C15: for a completed run over n path returns, with S their ascending
\* arrangement: percentile_5 = S[floor(0.05 n)], percentile_95 =
\* S[floor(0.95 n)], var_95 = -percentile_5, expected_shortfall_95 is minus
\* the mean of the floor(0.05 n) smallest returns or 0 when there are none,
\* probability_loss = (number of returns < 0) / n; so percentile_5 <=
\* median_return <= percentile_95 and 0 <= probability_loss <= 1; and the
\* result is the same when two neighbouring paths are exchanged (every order
\* of the paths is reached by such exchanges).
C15_MonteCarloStatisticsFromSortedPaths ==
    (call.fn = "monte_carlo_statistics" /\ call.out # Pending
        /\ Len(call.args.final_returns) >= 2) =>
        LET paths == call.args.final_returns
            n == Len(paths)
            low == (5 * n) \div 100
            r == call.out.value
        IN  /\ call.out.outcome = "returned"
            /\ r.percentile_5 = OrderStatistic(paths, low)
            /\ r.percentile_95 = OrderStatistic(paths, (95 * n) \div 100)
            /\ r.var_95 = RNeg(r.percentile_5)
            /\ r.expected_shortfall_95 =
                   IF low = 0 THEN RZero
                   ELSE RNeg(RDivInt(SmallestSum(paths, low), low))
            /\ r.probability_loss =
                   Rat(Cardinality({i \in DOMAIN paths : paths[i][1] < 0}), n)
            /\ RLeq(r.percentile_5, r.median_return)
            /\ RLeq(r.median_return, r.percentile_95)
            /\ RLeq(RZero, r.probability_loss)
            /\ RLeq(r.probability_loss, ROne)
            /\ \A i \in 1..(n - 1) :
                   MonteCarloStatistics(n, Exchanged(paths, i, i + 1)) = r

\* A run long enough for a non-empty worst-5% slice, generated out of order,
\* with a loss in the slice.
C15_Witness ==
    /\ call.fn = "monte_carlo_statistics"
    /\ call.out # Pending
    /\ Len(call.args.final_returns) >= 20
    /\ call.args.final_returns[1] = Rat(1, 2)
    /\ call.args.final_returns[2] = Rat(-1, 2)
    /\ call.args.final_returns[3] = RZero
    /\ call.out.value.expected_shortfall_95 = Rat(1, 2)
    /\ call.out.value.percentile_5 = RZero

\* max(values[0..j]), for the 1-based position j
RunningPeak(values, j) ==
    CHOOSE v \in {values[i] : i \in 1..j} : \A i \in 1..j : RLeq(values[i], v)

DrawdownAt(values, j) ==
    RDiv(RSub(RunningPeak(values, j), values[j]), RunningPeak(values, j))

\* C16: for every sequence of positive values with at least 2 elements,
\* max_drawdown returns (d, p, t) where d is the maximum over j of
\* (max(values[0..j]) - values[j]) / max(values[0..j]), p <= t, values[p] is
\* the running peak at position t and d = (values[p] - values[t]) / values[p];
\* for every non-decreasing sequence of positive values d = 0.0 and p = t = 0.
C16_MaxDrawdownIsLargestPeakToTroughFall ==
    (/\ call.fn = "max_drawdown"
     /\ call.out # Pending
     /\ \A i \in DOMAIN call.args.values : RLess(RZero, call.args.values[i])) =>
        LET values == call.args.values
            d == call.out.value[1]
            p == call.out.value[2]
            t == call.out.value[3]
        IN  /\ call.out.outcome = "returned"
            /\ Len(values) >= 2 =>
                   /\ \E j \in DOMAIN values : d = DrawdownAt(values, j)
                   /\ \A j \in DOMAIN values : RLeq(DrawdownAt(values, j), d)
                   /\ 0 <= p /\ p <= t /\ t < Len(values)
                   /\ values[p + 1] = RunningPeak(values, t + 1)
                   /\ d = RDiv(RSub(values[p + 1], values[t + 1]), values[p + 1])
            /\ (\A i \in 1..(Len(values) - 1) : RLeq(values[i], values[i + 1])) =>
                   call.out.value = <<RZero, 0, 0>>

\* A rise to a peak followed by the deepest fall: (2/3, 1, 2).
C16_Witness ==
    /\ call.fn = "max_drawdown"
    /\ call.args.values = <<Rat(2, 1), Rat(3, 1), Rat(1, 1)>>
    /\ call.out = Returned(<<Rat(2, 3), 1, 2>>)

\* C17: for every confidence level in [0, 1], value_at_risk never indexes
\* outside the list (it returns); it is 0.0 for an empty list, and for n
\* returns it is >= 0 and equals
\* max(0, -sorted(returns)[min(floor((1 - confidence) * n), n - 1)]).
C17_ValueAtRiskClampedAndNonNegative ==
    (/\ call.fn = "value_at_risk"
     /\ call.out # Pending
     /\ RLeq(RZero, call.args.confidence_level)
     /\ RLeq(call.args.confidence_level, ROne)) =>
        LET returns == call.args.returns
            c == call.args.confidence_level
            n == Len(returns)
            at == Min(((c[2] - c[1]) * n) \div c[2], n - 1)
            loss == RNeg(OrderStatistic(returns, at))
        IN  /\ call.out.outcome = "returned"
            /\ n = 0 => call.out.value = RZero
            /\ n > 0 =>
                   /\ RLeq(RZero, call.out.value)
                   /\ call.out.value = IF RLeq(RZero, loss) THEN loss ELSE RZero

\* Confidence 0 on two losses: the index n is clamped to the last position.
C17_Witness ==
    /\ call.fn = "value_at_risk"
    /\ call.args.confidence_level = RZero
    /\ Len(call.args.returns) = 2
    /\ call.out = Returned(Rat(1, 2))

---------------------------------------------------------------------------
(* Grading, validation and comparison: properties of single calls *)

\* The value at e of the line through (x0, y0) and (x1, y1).
Interpolated(x0, y0, x1, y1, e) ==
    RAdd(Rat(y0, 1), RMul(Rat(y1 - y0, 1), RDiv(RSub(e, x0), RSub(x1, x0))))

\* The grade contract for thresholds t0 < t1 < t2 and errors e >= 0, with or
\* without the requirement 0 < t0.
GradeContract(positive_thresholds) ==
    LET e == call.args.error_pct
        t0 == Rat(call.args.thresholds[1], 1)
        t1 == Rat(call.args.thresholds[2], 1)
        t2 == Rat(call.args.thresholds[3], 1)
        excellent == Interpolated(RZero, 100, t0, 90, e)
        good == Interpolated(t0, 90, t1, 75, e)
        acceptable == Interpolated(t1, 75, t2, 50, e)
        poor == LET over == RSub(Rat(50, 1), RSub(e, t2))
                IN  IF RLess(over, RZero) THEN RZero ELSE over
        grade == call.out.value
    IN  (/\ call.fn = "_grade_error"
         /\ call.out # Pending
         /\ RLess(t0, t1) /\ RLess(t1, t2)
         /\ positive_thresholds => RLess(RZero, t0)
         /\ RLeq(RZero, e)) =>
            /\ call.out.outcome = "returned"
            /\ grade = IF RLeq(e, t0) THEN excellent
                       ELSE IF RLeq(e, t1) THEN good
                       ELSE IF RLeq(e, t2) THEN acceptable
                       ELSE poor
            /\ e = RZero => grade = Rat(100, 1)
            /\ e = t0 => grade = Rat(90, 1) /\ good = grade
            /\ e = t1 => grade = Rat(75, 1) /\ acceptable = grade
            /\ e = t2 => grade = Rat(50, 1) /\ poor = grade
            /\ \A e2 \in GradedErrors :
                   RLeq(e, e2) =>
                       /\ _grade_error(e2, call.args.thresholds).outcome = "returned"
                       /\ RLeq(_grade_error(e2, call.args.thresholds).value, grade)
            /\ RLeq(RZero, grade) /\ RLeq(grade, Rat(100, 1))
            /\ (e = Rat(error_pct_unknown, 1) /\ call.args.thresholds[3] <= 60) =>
                   grade = RZero

\* C18 (amended): for thresholds 0 < t0 < t1 < t2 and every error e >= 0,
\* _grade_error returns the piecewise-linear grade through (0, 100), (t0, 90),
\* (t1, 75), (t2, 50) and max(0, 50 - (e - t2)) beyond t2: 90, 75 and 50
\* exactly at the thresholds, where the neighbouring pieces agree;
\* non-increasing in e; within [0, 100]; the placeholder error 999 grades to 0.
C18_GradePiecewiseLinearForPositiveThresholds == GradeContract(TRUE)

\* C18 as stated: the same for all thresholds t0 < t1 < t2, t0 = 0 included.
C18_GradePiecewiseLinearForAscendingThresholds == GradeContract(FALSE)

\* The error on the first threshold of the return grading: 90 exactly.
C18_Witness ==
    /\ call.fn = "_grade_error"
    /\ call.args.thresholds = return_thresholds
    /\ call.args.error_pct = Rat(10, 1)
    /\ call.out = Returned(Rat(90, 1))

RecognizedMetrics == {"expected_return", "sharpe_ratio", "volatility", "max_drawdown"}

RECURSIVE GradeSum(_, _)
GradeSum(validations, keys) ==
    IF keys = {} THEN RZero
    ELSE LET key == CHOOSE k \in keys : TRUE
         IN  RAdd(validations[key].grade, GradeSum(validations, keys \ {key}))

ValidationContract ==
    (call.fn = "validate_predictions" /\ call.out # Pending) =>
        LET predicted_metrics == call.args.predicted_metrics
            present == DOMAIN predicted_metrics \cap RecognizedMetrics
            validation == call.out.value
            graded == DOMAIN validation.validations
            score == validation.overall_quality_score
        IN  /\ call.out.outcome = "returned"
            /\ graded = {IF m = "expected_return" THEN "return_prediction" ELSE m :
                            m \in present}
            /\ validation = validate_predictions(
                                [m \in present |-> predicted_metrics[m]],
                                call.args.actual_backtest)
            /\ score = IF graded = {} THEN RZero
                       ELSE RDivInt(GradeSum(validation.validations, graded),
                                    Cardinality(graded))
            /\ RLeq(RZero, score) /\ RLeq(score, Rat(100, 1))
            /\ Len(validation.recommendations) = 1
            /\ validation.recommendations[1] =
                   IF score[1] < 60 * score[2] THEN CRITICAL
                   ELSE IF score[1] < 75 * score[2] THEN WARNING
                   ELSE GOOD
            /\ bt_results = <<call.args.actual_backtest>>

\* C19: validate_predictions grades exactly the recognized metrics present in
\* the predictions (expected_return, sharpe_ratio, volatility, max_drawdown)
\* and ignores every other key; overall_quality_score is the mean of those
\* grades (0.0 when there is none) and lies in [0, 100]; exactly one
\* recommendation is given: CRITICAL below 60, WARNING from 60 to below 75,
\* GOOD otherwise; the call leaves the BacktestResult and the backtester's
\* results list as they were.
C19_ValidationGradesRecognizedMetricsOnly ==
    /\ []ValidationContract
    /\ [][call.fn = "validate_predictions" =>
              /\ call'.args = call.args
              /\ bt_results' = bt_results]_vars

\* A drawdown prediction graded 75 next to a key that is not recognized: one
\* grade, the score on the boundary of GOOD.
C19_Witness ==
    /\ call.fn = "validate_predictions"
    /\ call.out # Pending
    /\ DOMAIN call.args.predicted_metrics = {"alpha", "max_drawdown"}
    /\ call.out.value.overall_quality_score = Rat(75, 1)
    /\ call.out.value.recommendations = <<GOOD>>

\* C20: for every non-empty list of BacktestResults the winner of
\* compare_strategies is the entry with the highest Sharpe ratio (index 1 for
\* the Sharpe ratios 0.5, 1.2, 0.8), the first such entry when several share
\* it, with a reason naming the Sharpe ratio; the winner's sharpe is
\* metrics.sharpe_ratios.best, its index is the index of rank 1 in
\* rankings.by_sharpe, and each ranking holds every index 0..n-1 once.
C20_WinnerHasHighestSharpeFirstOnTies ==
    (call.fn = "compare_strategies" /\ call.out # Pending
        /\ call.args.results # <<>>) =>
        LET strategy_results == call.args.results
            n == Len(strategy_results)
            comparison == call.out.value
            winner == comparison.winner
            IsPermutation(r) ==
                /\ Len(r) = n
                /\ {r[k].index : k \in 1..n} = 0..(n - 1)
                /\ \A k \in 1..n : r[k].rank = k
        IN  /\ call.out.outcome = "returned"
            /\ winner.index \in 0..(n - 1)
            /\ \A j \in 1..n :
                   /\ RLeq(strategy_results[j].sharpe_ratio,
                           strategy_results[winner.index + 1].sharpe_ratio)
                   /\ j < winner.index + 1 =>
                          strategy_results[j].sharpe_ratio
                              # strategy_results[winner.index + 1].sharpe_ratio
            /\ winner.reason = "Best Sharpe ratio (risk-adjusted return)"
            /\ winner.metrics.sharpe = comparison.metrics.sharpe_ratios.best
            /\ comparison.rankings.by_sharpe[1].index = winner.index
            /\ IsPermutation(comparison.rankings.by_sharpe)
            /\ IsPermutation(comparison.rankings.by_return)
            /\ IsPermutation(comparison.rankings.by_drawdown)
            /\ [i \in 1..n |-> strategy_results[i].sharpe_ratio]
                   = <<Rat(1, 2), Rat(6, 5), Rat(4, 5)>> => winner.index = 1

\* The highest Sharpe ratio shared by the first and the last of three
\* entries: the first wins.
C20_Witness ==
    /\ call.fn = "compare_strategies"
    /\ call.out # Pending
    /\ Len(call.args.results) = 3
    /\ call.args.results[1].sharpe_ratio = Rat(6, 5)
    /\ call.args.results[2].sharpe_ratio = Rat(1, 2)
    /\ call.args.results[3].sharpe_ratio = Rat(6, 5)
    /\ call.out.value.winner.index = 0

---------------------------------------------------------------------------
(* Walk-forward results: the overfitting score *)

\* The contract of one WalkForwardResult.  The degradation d satisfies
\* d * |in_sharpe| = (in_sharpe - out_sharpe) * 100, part by part, or is 0 when
\* in_sharpe is 0; the score is d cut to [0, 100].
ScoreContract(r) ==
    LET in_sharpe == r.in_sample_sharpe
        out_sharpe == r.out_sample_sharpe
        d == r.degradation
        score == r.overfitting_score
    IN  /\ in_sharpe.num = RZero => d = SurdOfInt(0)
        /\ in_sharpe.num # RZero =>
               /\ RMul(d.base, RAbs(in_sharpe.num)) = RMul(Rat(100, 1), in_sharpe.num)
               /\ RMul(RDiv(d.coeff, Rat(100, 1)), RAbs(in_sharpe.num))
                      = RNeg(out_sharpe.num)
               /\ d.coeff # RZero =>
                      RMul(d.root, out_sharpe.sqrt_den) = in_sharpe.sqrt_den
        /\ score = IF SurdCompare(d, 0) <= 0 THEN SurdOfInt(0)
                   ELSE IF SurdCompare(d, 100) >= 0 THEN SurdOfInt(100)
                   ELSE d
        /\ SurdCompare(score, 0) >= 0
        /\ SurdCompare(score, 100) <= 0

\* C21: every WalkForwardResult emitted by walk_forward_analysis has
\* overfitting_score = min(100, max(0, degradation)), hence within [0, 100],
\* where degradation = (in_sample_sharpe - out_sample_sharpe) /
\* |in_sample_sharpe| * 100 when in_sample_sharpe is not 0 and 0 when it is
\* (nothing is divided by zero).
C21_OverfittingScoreIsClampedDegradation ==
    /\ wf.pc # "ZeroDivisionError"
    /\ \A k \in DOMAIN wf.results : ScoreContract(wf.results[k])
    /\ \A k \in DOMAIN adv_walk_forward : ScoreContract(adv_walk_forward[k])

\* A finished run with a result whose in-sample Sharpe ratio is not 0 and
\* whose degradation lies strictly between 0 and 100, so that the score is the
\* degradation itself.
C21_Witness ==
    /\ wf.pc = "done"
    /\ \E k \in DOMAIN adv_walk_forward :
           /\ adv_walk_forward[k].in_sample_sharpe.num # RZero
           /\ adv_walk_forward[k].degradation.coeff # RZero
           /\ SurdCompare(adv_walk_forward[k].overfitting_score, 0) > 0
           /\ SurdCompare(adv_walk_forward[k].overfitting_score, 100) < 0

---------------------------------------------------------------------------
(* Walk-forward analysis on too short a timeline *)

\* The distinct dates the provider returned, over all symbols.
AvailableDates(historical_prices) ==
    {d \in WFDates :
        \E s \in DOMAIN historical_prices :
            \E i \in DOMAIN historical_prices[s].prices :
                historical_prices[s].prices[i].date = d}

\* C22: when there are fewer available dates than in_sample_window +
\* out_sample_window, walk_forward_analysis returns an empty list without
\* raising and without evaluating any window.
C22_InsufficientDataReturnsEmpty ==
    (/\ wf.pc # "idle"
     /\ Cardinality(AvailableDates(wf.historical_prices))
            < wf.in_sample_window + wf.out_sample_window)
    => /\ wf.pc = "done"
       /\ wf.returned = <<>>
       /\ wf.log = <<>>
       /\ wf.iteration = 0
       /\ wf.results = <<>>

\* A call that returned on a timeline that has dates, shared by two symbols,
\* but one fewer than the two windows need.
C22_Witness ==
    /\ wf.pc = "done"
    /\ Cardinality(DOMAIN wf.historical_prices) = 2
    /\ Cardinality(AvailableDates(wf.historical_prices)) >= 2
    /\ Cardinality(AvailableDates(wf.historical_prices)) + 1
           = wf.in_sample_window + wf.out_sample_window
    /\ wf.returned = <<>>

---------------------------------------------------------------------------
(* Monte Carlo on a history of constant daily returns *)

\* x to the power n
RECURSIVE RPow(_, _)
RPow(x, n) == IF n = 0 THEN ROne ELSE RMul(x, RPow(x, n - 1))

ConstantHistory ==
    /\ mc.historical_returns # <<>>
    /\ \A i \in DOMAIN mc.historical_returns :
           mc.historical_returns[i] = mc.historical_returns[1]

\* C23: when every historical daily return is the same r, every simulated
\* path return is (1 + r)^horizon_days - 1, so for num_simulations >= 2 the
\* mean, the median and the 5th and 95th percentiles all equal it, and
\* probability_loss is 0 when r >= 0.
C23_ConstantHistoryGivesOnePathReturn ==
    (mc.pc \in {"simulate", "done"} /\ ConstantHistory) =>
        LET r == mc.historical_returns[1]
            expected == RSub(RPow(RAdd(ROne, r), mc.horizon_days), ROne)
        IN  /\ \A k \in DOMAIN mc.final_returns : mc.final_returns[k] = expected
            /\ (mc.pc = "done" /\ mc.num_simulations >= 2) =>
                   /\ mc.returned.mean_return = expected
                   /\ mc.returned.median_return = expected
                   /\ mc.returned.percentile_5 = expected
                   /\ mc.returned.percentile_95 = expected
                   /\ RLeq(RZero, r) => mc.returned.probability_loss = RZero
                   /\ adv_monte_carlo # <<>>
                   /\ adv_monte_carlo[Len(adv_monte_carlo)] = mc.returned

\* A finished simulation of two paths over two days on a history whose two
\* daily returns are the same positive number.
C23_Witness ==
    /\ mc.pc = "done"
    /\ ConstantHistory
    /\ Len(mc.historical_returns) = 2
    /\ RLess(RZero, mc.historical_returns[1])
    /\ mc.num_simulations = 2
    /\ mc.horizon_days = 2
    /\ Len(mc.final_returns) = 2
    /\ mc.returned.mean_return = mc.final_returns[1]

---------------------------------------------------------------------------
(* sharpe_ratio on short and constant series *)

\* C24: sharpe_ratio returns exactly 0.0 for every return sequence with fewer
\* than 2 samples and for every sequence of 2 or more samples whose sample
\* standard deviation is 0 (all samples equal), whatever the risk_free_rate
\* and periods_per_year.
C24_SharpeZeroOnShortOrConstantSeries ==
    (call.fn = "sharpe_ratio" /\ call.out # Pending) =>
        LET returns == call.args.returns
        IN  (Len(returns) < 2 \/ \A i \in DOMAIN returns : returns[i] = returns[1])
            => call.out = Returned(NeutralRatio)

\* A call that returned 0.0 on three equal non-zero returns with a
\* risk-free rate and a number of periods other than the defaults.
C24_Witness ==
    /\ call.fn = "sharpe_ratio"
    /\ call.out = Returned(NeutralRatio)
    /\ call.args.returns = <<Rat(1, 2), Rat(1, 2), Rat(1, 2)>>
    /\ call.args.risk_free_rate = Rat(-1, 25)
    /\ call.args.periods_per_year = 12

---------------------------------------------------------------------------
(* pre_trade_hook: hard constraints *)

\* C25: pre_trade_hook denies every trade that violates a hard constraint,
\* whatever its other fields: every trade whose symbol is in
\* forbidden_symbols, and every BUY whose trade value shares * price divided
\* by (current total_value + trade value) exceeds max_position_size, gets
\* permissionDecision 'deny', never 'allow' or 'warn'.
C25_HardConstraintViolationsAreDenied ==
    (call.fn = "pre_trade_hook" /\ call.out # Pending) =>
        LET trade == call.args.trade
            constraints == call.args.constraints
            trade_value == trade.shares * trade.price
            new_value == trade.current_portfolio.total_value + trade_value
            forbidden == \E i \in DOMAIN constraints.forbidden_symbols :
                             constraints.forbidden_symbols[i] = trade.symbol
            oversized == /\ trade.action = "BUY"
                         /\ new_value # 0
                         /\ RLess(constraints.max_position_size,
                                  Rat(trade_value, new_value))
        IN  (forbidden \/ oversized) => call.out.value.permissionDecision = "deny"

---------------------------------------------------------------------------
(* Walk-forward analysis: termination and the number of loop passes *)

\* The run has returned after the number of passes the timeline allows, and
\* pass k, completed or skipped, started at window index (k - 1) * step_size.
WalkForwardFinishedOnCount ==
    LET n == Cardinality(AvailableDates(wf.historical_prices))
        windows == wf.in_sample_window + wf.out_sample_window
    IN  /\ wf.pc = "done"
        /\ wf.iteration = IF n >= windows
                          THEN (n - windows) \div wf.step_size + 1 ELSE 0
        /\ Len(wf.log) = wf.iteration
        /\ \A k \in DOMAIN wf.log : wf.log[k].idx = (k - 1) * wf.step_size

\* C26: walk_forward_analysis terminates for every date list and all window
\* sizes when step_size >= 1; with N >= in_sample_window + out_sample_window
\* dates it makes exactly floor((N - in - out) / step_size) + 1 loop passes,
\* skipped ones included, a skipped pass advancing the window index by
\* step_size like a completed one.
C26_WalkForwardTerminatesAfterCountedPasses ==
    <>WalkForwardFinishedOnCount

\* A finished run of two passes, the first completed and the second skipped.
C26_Witness ==
    /\ WalkForwardFinishedOnCount
    /\ wf.step_size >= 1
    /\ Len(wf.log) = 2
    /\ wf.log[1].emitted
    /\ ~wf.log[2].emitted

---------------------------------------------------------------------------
(* cancel_task and the status of a finished task *)

\* C27: cancel_task changes state only for a task that has not finished: it
\* sets the status to 'cancelled' (and returns True) only when the task id is
\* known and its task is not done, and leaves status and results alone
\* otherwise; so a status of 'completed' or 'failed' is never overwritten
\* by cancel_task.
C27_CancelTaskSparesFinishedStatus ==
    [][\A task_id \in DOMAIN status' :
          (/\ status'[task_id].status = "cancelled"
           /\ task_id \in DOMAIN status => status[task_id].status # "cancelled")
          => /\ task_id \in DOMAIN tasks
             /\ ~done(coros[tasks[task_id]])
             /\ results' = results
             /\ task_id \in DOMAIN status =>
                    status[task_id].status \notin {"completed", "failed"}]_vars

---------------------------------------------------------------------------
(* Walk-forward analysis: the stored results *)

\* C28: after every call to walk_forward_analysis, results['walk_forward']
\* is the list the call returned, the empty list of a run on too short a
\* timeline included, and no other key of results has changed.
C28_StoredWalkForwardIsReturnedList ==
    wf.pc = "done" =>
        /\ adv_walk_forward = wf.returned
        /\ adv_monte_carlo = <<>>

---------------------------------------------------------------------------
(* Monte Carlo simulation: any positive number of paths *)

\* C29: when the portfolio history has at least 2 daily values,
\* monte_carlo_simulation returns a MonteCarloResult without raising for
\* every num_simulations >= 1 and horizon_days >= 0, with num_simulations as
\* requested, and appends exactly that one result to results['monte_carlo'].
C29_MonteCarloReturnsForAnyPositivePathCount ==
    (/\ mc.pc \notin {"idle", "simulate"}
     /\ Len(_calculate_daily_values(mc.portfolio, mc.historical_prices)) >= 2
     /\ mc.num_simulations >= 1
     /\ mc.horizon_days >= 0)
    => /\ mc.pc = "done"
       /\ mc.returned.num_simulations = mc.num_simulations
       /\ adv_monte_carlo = <<mc.returned>>


---------------------------------------------------------------------------
(* conditional_var against value_at_risk *)

\* C30: for every non-empty returns list and confidence level in [0, 1],
\* conditional_var(returns, c) >= value_at_risk(returns, c) >= 0, also when
\* floor((1 - c) * n) is 0 (the tail is the single worst return, and the two
\* are equal) and when it reaches n (the tail is the whole list).
C30_ConditionalVarAtLeastValueAtRisk ==
    (/\ call.fn = "conditional_var"
     /\ call.out # Pending
     /\ call.args.returns # <<>>
     /\ RLeq(RZero, call.args.confidence_level)
     /\ RLeq(call.args.confidence_level, ROne)) =>
        LET returns == call.args.returns
            c == call.args.confidence_level
            n == Len(returns)
            var == value_at_risk(returns, c)
            worst == RNeg(OrderStatistic(returns, 0))
            average == RNeg(MeanRat(returns))
        IN  /\ call.out.outcome = "returned"
            /\ var.outcome = "returned"
            /\ RLeq(RZero, var.value)
            /\ RLeq(var.value, call.out.value)
            /\ ((c[2] - c[1]) * n) \div c[2] = 0 =>
                   /\ call.out.value = IF RLeq(RZero, worst) THEN worst ELSE RZero
                   /\ call.out.value = var.value
            /\ ((c[2] - c[1]) * n) \div c[2] >= n =>
                   call.out.value = IF RLeq(RZero, average) THEN average ELSE RZero

\* Confidence 1/2 on a loss and a flat day: the tail is the loss alone, the
\* value at risk is 0 and the conditional value at risk is above it.
C30_Witness ==
    /\ call.fn = "conditional_var"
    /\ call.args.returns = <<RZero, Rat(-1, 2)>>
    /\ call.args.confidence_level = Rat(1, 2)
    /\ call.out = Returned(Rat(1, 2))
    /\ value_at_risk(call.args.returns, call.args.confidence_level) = Returned(RZero)

====
